---- MODULE Spec2Model ----
(***************************************************************************)
(* A model of fslib's layer algebra (src/fslib/base.py, helpers.py,        *)
(* stacking.py): MemoryFS, WhiteoutFS, ReadOnlyFS, UnionFS and MountFS.    *)
(*                                                                         *)
(* Paths are sequences of components: "/" is << >>, "/a/x" is <<"a","x">>. *)
(* A MemoryFS is its path index (_full_map): a function from the indexed   *)
(* paths to the objects they point to.  A directory object carries the set *)
(* of names of its `contents` dict; for an indexed directory the object    *)
(* stored under a name is always the object indexed at the joined path     *)
(* (both are written together by every create and removed together by      *)
(* every delete), so the names are all the model needs.                    *)
(***************************************************************************)
EXTENDS Integers, Sequences, FiniteSets, TLC

VARIABLES
    mem,                \* MemoryFS id -> _full_map of that instance
    wc,                 \* WhiteoutFS id -> storage of its MemoryWhiteoutCache
    branches,           \* UnionFS._branches: ref -> [fs, rank, writable]
    sorted_branches,    \* UnionFS._sorted_branches: sequence of refs
    write_branches,     \* UnionFS._write_branches: sequence of refs
    filesystems,        \* MountFS.filesystems: mount point -> sub-filesystem
    sorted_filesystems, \* MountFS._sorted_filesystems: sequence of <<anchor, subfs>>
    last                \* the last call that wrote, and the error it raised

vars == <<mem, wc, branches, sorted_branches, write_branches,
          filesystems, sorted_filesystems, last>>

-----------------------------------------------------------------------------
(* Bounds of the model.                                                    *)

\* The longest byte buffer a file holds.
MaxLen == 2

-----------------------------------------------------------------------------
(* Paths: os.path on sequences of components.                              *)

ROOT == << >>

dirname(p) == IF p = << >> THEN << >> ELSE SubSeq(p, 1, Len(p) - 1)

basename(p) == IF p = << >> THEN "" ELSE p[Len(p)]

join(p, name) == Append(p, name)

\* BaseFS.iter_path: the path's ancestors from the root down, then the path.
iter_path(p) == [i \in 1..(Len(p) + 1) |-> SubSeq(p, 1, i - 1)]

\* helpers.is_parent: relpath(dir2, start=dir1) does not start with '..'.
is_parent(dir1, dir2) ==
    /\ Len(dir1) <= Len(dir2)
    /\ SubSeq(dir2, 1, Len(dir1)) = dir1

\* os.path.relpath(path, start) for start an ancestor of path; '.' when equal.
relpath(path, start) ==
    IF path = start THEN <<".">> ELSE SubSeq(path, Len(start) + 1, Len(path))

\* os.path.normpath on an absolute path: '.' and empty segments are dropped
\* and a '..' segment drops the segment before it ('/..' is '/').
RECURSIVE collapse_from(_, _, _)
collapse_from(p, i, done) ==
    IF i > Len(p) THEN done
    ELSE IF p[i] \in {".", ""} THEN collapse_from(p, i + 1, done)
    ELSE IF p[i] = ".." THEN collapse_from(p, i + 1, dirname(done))
    ELSE collapse_from(p, i + 1, Append(done, p[i]))

os_normpath(p) == collapse_from(p, 1, ROOT)

\* helpers.normpath leaves an absolute path as it is.
normpath(p) == p

\* len() of the path string, for names of one character.
strlen(p) == IF p = << >> THEN 1 ELSE 2 * Len(p)

\* The path string of p, character by character, for names of one
\* character: '/' for the root, else '/' and the name for each component; an
\* empty last component is a trailing '/'.
RECURSIVE chars_from(_, _)
chars_from(p, i) ==
    IF i > Len(p) THEN << >>
    ELSE <<"/">> \o (IF p[i] = "" THEN << >> ELSE <<p[i]>>) \o chars_from(p, i + 1)

path_str(p) == IF p = ROOT THEN <<"/">> ELSE chars_from(p, 1)

\* str.split('/') of a string given character by character.
RECURSIVE split(_)
split(s) ==
    IF s = << >> THEN <<"">>
    ELSE IF s[1] = "/" THEN <<"">> \o split(Tail(s))
    ELSE <<s[1] \o split(Tail(s))[1]>> \o Tail(split(Tail(s)))

\* The components of the absolute path string s.
str_path(s) == IF s = <<"/">> THEN ROOT ELSE split(Tail(s))

\* os.path.join(a, b) on strings
os_path_join(a, b) ==
    IF b # << >> /\ b[1] = "/" THEN b
    ELSE IF a = << >> \/ a[Len(a)] = "/" THEN a \o b
    ELSE a \o <<"/">> \o b

\* s[n:]
str_from(s, n) == SubSeq(s, n + 1, Len(s))

-----------------------------------------------------------------------------
(* Bit arithmetic on modes.                                                *)

RECURSIVE BitAnd(_, _)
BitAnd(a, b) ==
    IF a = 0 \/ b = 0 THEN 0
    ELSE (a % 2) * (b % 2) + 2 * BitAnd(a \div 2, b \div 2)

RECURSIVE BitOr(_, _)
BitOr(a, b) ==
    IF a = 0 THEN b
    ELSE IF b = 0 THEN a
    ELSE (IF a % 2 = 1 \/ b % 2 = 1 THEN 1 ELSE 0) + 2 * BitOr(a \div 2, b \div 2)

S_IFDIR == 16384
S_IFREG == 32768
S_IFMT == 61440
S_IRWXU == 448
S_IRWXG == 56
S_IRWXO == 7
S_ISGID == 1024
S_IRALL == 292
S_IWALL == 146
S_IXALL == 73
PERM_MASK == 4095

S_ISDIR(mode) == BitAnd(mode, S_IFMT) = S_IFDIR
S_ISREG(mode) == BitAnd(mode, S_IFMT) = S_IFREG
S_IMODE(mode) == BitAnd(mode, PERM_MASK)

F_OK == 0
X_OK == 1
W_OK == 2
R_OK == 4

\* helpers.is_readonly_open_mode: set(mode) < set('rbt').  An open mode is
\* the set of its characters.
MODE_RB == {"r", "b"}
MODE_WB == {"w", "b"}
is_readonly_open_mode(mode) == mode \subseteq {"r", "b", "t"} /\ mode # {"r", "b", "t"}

-----------------------------------------------------------------------------
(* Results and calls.                                                      *)

\* A result: err is "" on success, else the name of the error raised.
\* DELETED is exceptions.DeletedObjectError.
Ok(v) == [err |-> "", val |-> v]
Err(e) == [err |-> e, val |-> "none"]
IsOk(r) == r.err = ""

\* The errno an error carries (DeletedObjectError carries ENOENT; FSError and
\* the non-OSError exceptions carry none of the errno codes).
Errno(e) == IF e = "DELETED" THEN "ENOENT" ELSE e

IsOSError(e) ==
    e \in {"DELETED", "EACCES", "EBUSY", "EEXIST", "EINVAL", "EISDIR", "ENOENT",
           "ENOTDIR", "ENOTEMPTY", "EROFS", "FSError"}

\* A call of one operation of the BaseFS interface; data is what is written
\* to the stream a write-mode open returns.
Call(op, path) ==
    [op |-> op, path |-> path, mode |-> 0, omode |-> MODE_RB,
     uid |-> 0, gid |-> 0, target |-> << >>, data |-> << >>]

Ret(w, r) == [w |-> w, res |-> r]

\* K with its name bound to the value v: a local variable of a method.
Let(v, K(_)) == K(v)

-----------------------------------------------------------------------------
(* The filesystem instances of the model and how they are stacked.         *)

MemIds == {"mA", "mB"}
Kind(f) ==
    CASE f \in {"mA", "mB"} -> "memory"
      [] f \in {"wA", "wB"} -> "whiteout"
      [] f = "rB" -> "readonly"
      [] f = "U" -> "union"
      [] f = "M" -> "mount"
      [] f \in {"cR", "cE"} -> "chroot"

\* WrappingFS.wrapped
Wrapped(f) ==
    CASE f = "wA" -> "mA"
      [] f = "wB" -> "mB"
      [] f = "rB" -> "mB"
      [] f \in {"cR", "cE"} -> "mA"

\* os.getuid(), os.getgid() of the calling process.
CallerUid == 0
CallerGid == 0

\* BaseFS.__init__: the defaults of a MemoryFS built without arguments
\* in a process whose umask is 022.
default_umask == 18
default_uid == CallerUid
default_gid == CallerGid
default_dir_mode == BitAnd(BitOr(S_IRWXU, BitOr(S_IRWXG, S_IRWXO)), default_umask)
default_file_mode == BitAnd(BitOr(S_IRALL, S_IWALL), default_umask)
default_symlink_mode == BitOr(S_IRWXU, BitOr(S_IRWXG, S_IRWXO))

-----------------------------------------------------------------------------
(* MemoryFS: FakeFSObject, FakeFile, FakeDir and the MemoryFS methods.     *)
(* Each method takes the index ix and returns [ix, res].                   *)

\* FakeFSObject.__init__ (mode | BASE_ST_MOD), with FakeDir's contents and
\* FakeFile's BytesIO (its bytes and its stream position).
FakeDir(mode, uid, gid) ==
    [kind |-> "dir", mode |-> BitOr(mode, S_IFDIR), uid |-> uid, gid |-> gid,
     contents |-> {}, data |-> << >>, pos |-> 0]

FakeFile(mode, uid, gid) ==
    [kind |-> "file", mode |-> BitOr(mode, S_IFREG), uid |-> uid, gid |-> gid,
     contents |-> {}, data |-> << >>, pos |-> 0]

\* MemoryFS.__init__: the index holds the root directory.
NewMemoryFS == (ROOT :> FakeDir(default_dir_mode, default_uid, default_gid))

_has_access(mode, uid, gid, target_mode, target_uid, target_gid) ==
    \/ uid = target_uid /\ BitAnd(BitAnd(mode, target_mode), S_IRWXU) # 0
    \/ gid = target_gid /\ BitAnd(BitAnd(mode, target_mode), S_IRWXG) # 0
    \/ BitAnd(BitAnd(mode, target_mode), S_IRWXO) # 0

\* FakeFSObject.access
ObjAccess(obj, mode) ==
    IF mode = F_OK THEN TRUE
    ELSE _has_access(BitOr(IF BitAnd(mode, R_OK) # 0 THEN S_IRALL ELSE 0,
                     BitOr(IF BitAnd(mode, W_OK) # 0 THEN S_IWALL ELSE 0,
                           IF BitAnd(mode, X_OK) # 0 THEN S_IXALL ELSE 0)),
                     CallerUid, CallerGid, obj.mode, obj.uid, obj.gid)

\* FakeFSObject.lstat (the times are left out; _size is never updated).
ObjStat(obj) == [st_mode |-> obj.mode, st_uid |-> obj.uid, st_gid |-> obj.gid,
                 st_size |-> 0]

Has(ix, p) == p \in DOMAIN ix

Put(ix, p, obj) == (p :> obj) @@ ix

Del(ix, p) == [q \in (DOMAIN ix) \ {p} |-> ix[q]]

MRet(ix, r) == [ix |-> ix, res |-> r]

\* MemoryFS._get_parent: "" when the parent is an indexed directory, else
\* the error raised.
MemParentErr(ix, p) ==
    IF ~Has(ix, dirname(p)) THEN "ENOENT"
    ELSE IF ix[dirname(p)].kind # "dir" THEN "ENOTDIR"
    ELSE ""

\* The gid a FakeDir.make_* gives the new object (g+s on the parent).
ChildGid(parent, gid) ==
    IF BitAnd(parent.mode, S_ISGID) # 0 THEN parent.gid ELSE gid

\* parent.contents[name] = obj; self._full_map[path] = obj
MemCreate(ix, p, obj) ==
    Put([ix EXCEPT ![dirname(p)].contents = @ \cup {basename(p)}], p, obj)

\* del parent.contents[name]; del self._full_map[path]
MemRemove(ix, p) ==
    Del([ix EXCEPT ![dirname(p)].contents = @ \ {basename(p)}], p)

MemAccess(ix, p, mode) ==
    MRet(ix, Ok(IF Has(ix, p) THEN ObjAccess(ix[p], mode) ELSE FALSE))

MemListdir(ix, p) ==
    IF ~Has(ix, p) THEN MRet(ix, Err("ENOENT"))
    ELSE IF ix[p].kind # "dir" THEN MRet(ix, Err("ENOTDIR"))
    ELSE MRet(ix, Ok(ix[p].contents))

MemLstat(ix, p) ==
    IF ~Has(ix, p) THEN MRet(ix, Err("ENOENT")) ELSE MRet(ix, Ok(ObjStat(ix[p])))

MemStat(ix, p) == MemLstat(ix, p)

\* FakeFSObject.readlink: no object of the index is a symlink (see MemSymlink).
MemReadlink(ix, p) ==
    IF ~Has(ix, p) THEN MRet(ix, Err("ENOENT")) ELSE MRet(ix, Err("EINVAL"))

\* FakeFile.open_binary on the object indexed at p, in index ix: the stream
\* returned is the file's own buffer, named by the instance and the path.
ObjOpen(m, ix, p, omode) ==
    IF ix[p].kind # "file" THEN MRet(ix, Err("AttributeError"))
    ELSE IF ~is_readonly_open_mode(omode) /\ ~ObjAccess(ix[p], W_OK)
         THEN MRet(ix, Err("EACCES"))
    ELSE MRet(ix, Ok([mem |-> m, path |-> p]))

\* MemoryFS._open_binary: _get_or_create_file, then FakeFile.open_binary.
MemOpen(m, ix, p, omode) ==
    IF Has(ix, p) THEN ObjOpen(m, ix, p, omode)
    ELSE IF is_readonly_open_mode(omode) THEN MRet(ix, Err("ENOENT"))
    ELSE IF MemParentErr(ix, p) # "" THEN MRet(ix, Err(MemParentErr(ix, p)))
    ELSE IF ~ObjAccess(ix[dirname(p)], W_OK) THEN MRet(ix, Err("EACCES"))
    ELSE ObjOpen(m, MemCreate(ix, p, FakeFile(default_file_mode, default_uid,
                                              ChildGid(ix[dirname(p)], default_gid))),
                 p, omode)

\* FakeFSObject.chmod: the mode given replaces the whole mode.
MemChmod(ix, p, mode) ==
    IF ~Has(ix, p) THEN MRet(ix, Err("ENOENT"))
    ELSE IF ~ObjAccess(ix[p], W_OK) THEN MRet(ix, Err("EACCES"))
    ELSE MRet([ix EXCEPT ![p].mode = mode], Ok("none"))

MemChown(ix, p, uid, gid) ==
    IF ~Has(ix, p) THEN MRet(ix, Err("ENOENT"))
    ELSE IF ~ObjAccess(ix[p], W_OK) THEN MRet(ix, Err("EACCES"))
    ELSE MRet([ix EXCEPT ![p].uid = uid, ![p].gid = gid], Ok("none"))

\* MemoryFS._symlink: FakeDir.make_symlink builds FakeSymlink(target, mode=,
\* uid=, gid=), whose FakeFSObject.__init__ lacks its `path` argument: the
\* constructor raises TypeError before anything is stored.
MemSymlink(ix, link_name, target) ==
    IF MemParentErr(ix, link_name) # "" THEN MRet(ix, Err(MemParentErr(ix, link_name)))
    ELSE IF basename(link_name) \in ix[dirname(link_name)].contents
         THEN MRet(ix, Err("EEXIST"))
    ELSE IF ~ObjAccess(ix[dirname(link_name)], W_OK) THEN MRet(ix, Err("EACCES"))
    ELSE MRet(ix, Err("TypeError"))

\* MemoryFS._mkdir: no test that the path is free.
MemMkdir(ix, p) ==
    IF MemParentErr(ix, p) # "" THEN MRet(ix, Err(MemParentErr(ix, p)))
    ELSE IF ~ObjAccess(ix[dirname(p)], W_OK) THEN MRet(ix, Err("EACCES"))
    ELSE MRet(MemCreate(ix, p, FakeDir(default_dir_mode, default_uid,
                                       ChildGid(ix[dirname(p)], default_gid))),
              Ok("none"))

\* MemoryFS._rmdir and FakeDir.rmdir
MemRmdir(ix, p) ==
    IF MemParentErr(ix, p) # "" THEN MRet(ix, Err(MemParentErr(ix, p)))
    ELSE IF basename(p) \notin ix[dirname(p)].contents THEN MRet(ix, Err("ENOENT"))
    ELSE IF ix[p].kind # "dir" THEN MRet(ix, Err("ENOTDIR"))
    ELSE IF ~ObjAccess(ix[dirname(p)], W_OK) THEN MRet(ix, Err("EACCES"))
    ELSE IF ix[p].contents # {} THEN MRet(ix, Err("ENOTEMPTY"))
    ELSE MRet(MemRemove(ix, p), Ok("none"))

\* MemoryFS._unlink and FakeDir.unlink
MemUnlink(ix, p) ==
    IF MemParentErr(ix, p) # "" THEN MRet(ix, Err(MemParentErr(ix, p)))
    ELSE IF basename(p) \notin ix[dirname(p)].contents THEN MRet(ix, Err("ENOENT"))
    ELSE IF ix[p].kind = "dir" THEN MRet(ix, Err("EISDIR"))
    ELSE IF ~ObjAccess(ix[dirname(p)], W_OK) THEN MRet(ix, Err("EACCES"))
    ELSE MRet(MemRemove(ix, p), Ok("none"))

\* The method c.op of MemoryFS instance m on its index ix.
MemMethod(m, ix, p, c) ==
    CASE c.op = "access" -> MemAccess(ix, p, c.mode)
      [] c.op = "listdir" -> MemListdir(ix, p)
      [] c.op = "lstat" -> MemLstat(ix, p)
      [] c.op = "readlink" -> MemReadlink(ix, p)
      [] c.op = "stat" -> MemStat(ix, p)
      [] c.op = "open" -> MemOpen(m, ix, p, c.omode)
      [] c.op = "chmod" -> MemChmod(ix, p, c.mode)
      [] c.op = "chown" -> MemChown(ix, p, c.uid, c.gid)
      [] c.op = "mkdir" -> MemMkdir(ix, p)
      [] c.op = "symlink" -> MemSymlink(ix, p, normpath(c.target))
      [] c.op = "rmdir" -> MemRmdir(ix, p)
      [] c.op = "unlink" -> MemUnlink(ix, p)

\* One call on MemoryFS instance m.
MemCall(w, m, c) ==
    Let(MemMethod(m, w.mem[m], normpath(c.path), c),
        LAMBDA r : Ret([w EXCEPT !.mem[m] = r.ix], r.res))

-----------------------------------------------------------------------------
(* The layers.  FsCall(w, f, c) is the public method c.op of instance f    *)
(* (BaseFS.<op>: convert_path_in, then _<op>) in world w = [mem, wc]; it   *)
(* returns the world after the call and the result.  The world also       *)
(* carries the UnionFS branch lists and the MountFS mount table, which     *)
(* no operation of the interface changes.                                  *)

RECURSIVE FsCall(_, _, _)

\* BaseFS.isdir
FsIsdir(w, f, p) ==
    Let(FsCall(w, f, Call("stat", p)).res,
        LAMBDA r : IF IsOk(r) THEN Ok(S_ISDIR(r.val.st_mode)) ELSE r)

\* BaseFS.access with mode F_OK, as a result.
FsAccess(w, f, p) == FsCall(w, f, [Call("access", p) EXCEPT !.mode = F_OK]).res

Min(S) == CHOOSE x \in S : \A y \in S : x <= y

(* Streams: the BufferWrapper an open returns shares the file's BytesIO.   *)

\* BytesIO.write(b) at the stream position.
BufWrite(obj, b) ==
    [obj EXCEPT
        !.data = [i \in 1..(IF obj.pos + Len(b) > Len(obj.data)
                            THEN obj.pos + Len(b) ELSE Len(obj.data)) |->
                    IF i > obj.pos /\ i <= obj.pos + Len(b) THEN b[i - obj.pos]
                    ELSE obj.data[i]],
        !.pos = obj.pos + Len(b)]

\* BytesIO.read(): the bytes from the stream position to the end.
BufRead(obj) == SubSeq(obj.data, obj.pos + 1, Len(obj.data))

BufAfterRead(obj) == [obj EXCEPT !.pos = Len(obj.data)]

OpenCall(p, omode) == [Call("open", p) EXCEPT !.omode = omode]

\* stream.write(b) on the stream the open that returned r gave; the result
\* is the open's.
StreamWrite(r, b) ==
    IF ~IsOk(r.res) THEN r
    ELSE Ret([r.w EXCEPT !.mem[r.res.val.mem][r.res.val.path] = BufWrite(@, b)],
             r.res)

\* stream.read() on the stream the open that returned r gave; the result is
\* the bytes read.
StreamRead(r) ==
    IF ~IsOk(r.res) THEN r
    ELSE Ret([r.w EXCEPT !.mem[r.res.val.mem][r.res.val.path] = BufAfterRead(@)],
             Ok(BufRead(r.w.mem[r.res.val.mem][r.res.val.path])))

\* f.open_binary(p, 'wb').write(b)
WriteFile(w, f, p, b) == StreamWrite(FsCall(w, f, OpenCall(p, MODE_WB)), b)

\* f.open_binary(p, 'rb').read()
ReadFile(w, f, p) == StreamRead(FsCall(w, f, OpenCall(p, MODE_RB)))

\* The buffer length the write of b after an open of p that returned r
\* reaches, 0 when the open failed.
LenAfterWrite(r, b) ==
    IF ~IsOk(r.res) THEN 0
    ELSE r.w.mem[r.res.val.mem][r.res.val.path].pos + Len(b)

(* ------------------------------ WhiteoutFS ------------------------------ *)

\* WhiteoutFS._check_component: "" when the component passes, else the error.
check_component(w, f, path, ensure_dir) ==
    IF path \in w.wc[f] THEN "DELETED"
    ELSE IF ensure_dir
         THEN Let(FsIsdir(w, Wrapped(f), path),
                  LAMBDA d : IF ~IsOk(d) THEN d.err
                             ELSE IF ~d.val /\ path # ROOT THEN "ENOTDIR"
                             ELSE "")
    ELSE ""

\* WhiteoutFS._check_path from the i-th part of iter_path(path) on: the error
\* of the first component that fails.
RECURSIVE check_path_from(_, _, _, _)
check_path_from(w, f, path, i) ==
    IF i > Len(iter_path(path)) THEN ""
    ELSE Let(check_component(w, f, iter_path(path)[i], path # iter_path(path)[i]),
             LAMBDA e : IF e # "" THEN e ELSE check_path_from(w, f, path, i + 1))

check_path(w, f, path) == check_path_from(w, f, path, 1)

\* WhiteoutFS._manage_whiteout around a call forwarded to the wrapped
\* filesystem: the checks, the call, then the resurrection of a created path.
manage_whiteout(w, f, path, for_creation, c) ==
    Let(check_path(w, f, IF for_creation THEN dirname(path) ELSE path),
        LAMBDA chk :
            IF chk # "" THEN Ret(w, Err(chk))
            ELSE Let(FsCall(w, Wrapped(f), c),
                     LAMBDA r :
                         IF IsOk(r.res) /\ for_creation
                         THEN Ret([r.w EXCEPT !.wc[f] = @ \ {path}], r.res)
                         ELSE r))

\* A WhiteoutFS whose access asks the wrapped filesystem only.
WhAccessForwarding(w, f, c) == FsCall(w, Wrapped(f), c)

WhAccess(w, f, c) ==
    Let(check_path(w, f, c.path),
        LAMBDA chk :
            IF chk # "" THEN
                IF Errno(chk) \in {"ENOTDIR", "ENOENT", "EACCES"}
                THEN Ret(w, Ok(FALSE))
                ELSE Ret(w, Err(chk))
            ELSE FsCall(w, Wrapped(f), c))

\* `item not in self.whiteout_cache`, for item a name returned by the wrapped
\* listdir: the cache holds the absolute paths given to _unlink and _rmdir,
\* and a string that starts with '/' never equals a child name.
AbsPathIsName(q, item) == FALSE

WhListdir(w, f, c) ==
    Let(manage_whiteout(w, f, c.path, FALSE, c),
        LAMBDA r :
            IF ~IsOk(r.res) THEN r
            ELSE Ret(r.w, Ok({item \in r.res.val :
                                 ~\E q \in w.wc[f] : AbsPathIsName(q, item)})))

\* WhiteoutFS._open_binary
WhOpen(w, f, c) ==
    IF is_readonly_open_mode(c.omode) THEN manage_whiteout(w, f, c.path, FALSE, c)
    ELSE Let(FsAccess(w, f, c.path),
             LAMBDA acc : IF ~IsOk(acc) THEN Ret(w, acc)
                          ELSE manage_whiteout(w, f, c.path, ~acc.val, c))

\* A WhiteoutFS whose _unlink forwards the deletion to the wrapped filesystem.
WhUnlinkForwarding(w, f, c) ==
    Let(check_path(w, f, c.path),
        LAMBDA chk :
            IF chk # "" THEN Ret(w, Err(chk))
            ELSE FsCall([w EXCEPT !.wc[f] = @ \cup {c.path}], Wrapped(f), c))

WhUnlink(w, f, c) ==
    Let(check_path(w, f, c.path),
        LAMBDA chk :
            IF chk # "" THEN Ret(w, Err(chk))
            ELSE Ret([w EXCEPT !.wc[f] = @ \cup {c.path}], Ok("none")))

\* WhiteoutFS._rmdir: any(self.listdir(path))
WhRmdir(w, f, c) ==
    Let(FsCall(w, f, Call("listdir", c.path)).res,
        LAMBDA l :
            IF ~IsOk(l) THEN Ret(w, l)
            ELSE IF l.val # {} THEN Ret(w, Err("ENOTEMPTY"))
            ELSE Ret([w EXCEPT !.wc[f] = @ \cup {c.path}], Ok("none")))

WhCall(w, f, c) ==
    CASE c.op = "access" -> WhAccess(w, f, c)
      [] c.op = "listdir" -> WhListdir(w, f, c)
      [] c.op = "open" -> WhOpen(w, f, c)
      [] c.op = "unlink" -> WhUnlink(w, f, c)
      [] c.op = "rmdir" -> WhRmdir(w, f, c)
      [] OTHER -> manage_whiteout(w, f, c.path, c.op \in {"mkdir", "symlink"}, c)

(* ------------------------------- ChrootFS ------------------------------- *)

\* ChrootFS.__init__: cR maps the root to /a, cE maps /e to /a.
external_root(f) == IF f = "cR" THEN ROOT ELSE <<"e">>
internal_root(f) == <<"a">>

\* The working directory of the process, which os.path.relpath joins a
\* relative path to.
cwd == ROOT

\* ChrootFS.convert_path_in
convert_path_in(f, path) ==
    IF ~is_parent(external_root(f), os_normpath(path)) THEN Err("EACCES")
    ELSE Ok(str_path(os_path_join(path_str(internal_root(f)),
                                  str_from(path_str(path),
                                           Len(path_str(external_root(f)))))))

\* ChrootFS.convert_path_out
convert_path_out(f, path) ==
    IF ~is_parent(internal_root(f), os_normpath(path)) THEN Err("EACCES")
    ELSE Ok(str_path(os_path_join(path_str(external_root(f)),
                                  str_from(path_str(path),
                                           Len(path_str(internal_root(f)))))))

\* convert_path_out of a name that listdir of the wrapped filesystem
\* returned: a relative path of one character.
convert_name_out(f, name) ==
    IF ~is_parent(internal_root(f), os_normpath(Append(cwd, name))) THEN Err("EACCES")
    ELSE Ok(str_path(os_path_join(path_str(external_root(f)),
                                  str_from(<<name>>,
                                           Len(path_str(internal_root(f)))))))

\* BaseFS.listdir of a ChrootFS: convert_path_out of every name listed.
ChListdir(w, f, c) ==
    Let(FsCall(w, Wrapped(f), c),
        LAMBDA r :
            IF ~IsOk(r.res) THEN r
            ELSE IF \E n \in r.res.val : ~IsOk(convert_name_out(f, n))
                 THEN Ret(r.w, Err("EACCES"))
            ELSE Ret(r.w, Ok({convert_name_out(f, n).val : n \in r.res.val})))

\* A call on a ChrootFS: BaseFS.<op> converts the path, _<op> of WrappingFS
\* forwards it.
ChCall(w, f, c) ==
    Let(convert_path_in(f, c.path),
        LAMBDA q :
            IF ~IsOk(q) THEN Ret(w, q)
            ELSE IF c.op = "listdir" THEN ChListdir(w, f, [c EXCEPT !.path = q.val])
            ELSE IF c.op = "symlink"
                 THEN Let(convert_path_in(f, c.target),
                          LAMBDA t :
                              IF ~IsOk(t) THEN Ret(w, t)
                              ELSE FsCall(w, Wrapped(f),
                                          [c EXCEPT !.path = q.val, !.target = t.val]))
            ELSE FsCall(w, Wrapped(f), [c EXCEPT !.path = q.val]))

(* ------------------------------ ReadOnlyFS ------------------------------ *)

\* A ReadOnlyFS that forwards every call to the wrapped filesystem.
RoCallForwarding(w, f, c) == FsCall(w, Wrapped(f), c)

RoCall(w, f, c) ==
    IF \/ c.op = "access" /\ BitAnd(c.mode, W_OK) # 0
    THEN Ret(w, Ok(FALSE))
    ELSE IF \/ c.op = "open" /\ ~is_readonly_open_mode(c.omode)
            \/ c.op \in {"chmod", "chown", "mkdir", "symlink", "rmdir", "unlink"}
    THEN Ret(w, Err("EROFS"))
    ELSE FsCall(w, Wrapped(f), c)

(* -------------------------------- UnionFS ------------------------------- *)

_STATUS_DELETED == "deleted"
_STATUS_UNKNOWN == "unknown"
_STATUS_INVALID == "invalid"
_STATUS_NOPERM == "noperm"
_STATUS_EXISTS == "exists"

\* UnionFS.__init__(strict=False)
strict == FALSE

_Branch(fs, rank, writable) == [fs |-> fs, rank |-> rank, writable |-> writable]

\* _PStat(stats, status); status "raise" stands for the exception err that
\* _get_branch_pstat lets through.
_PStat(stats, status, err) == [stats |-> stats, status |-> status, err |-> err]

_get_branch_pstat(w, branch, path) ==
    Let(FsCall(w, branch.fs, Call("stat", path)).res,
        LAMBDA r :
            IF IsOk(r) THEN _PStat(r.val, _STATUS_EXISTS, "")
            ELSE IF r.err = "DELETED" THEN _PStat("none", _STATUS_DELETED, "")
            ELSE IF r.err = "ENOENT" THEN _PStat("none", _STATUS_UNKNOWN, "")
            ELSE IF r.err = "EACCES" THEN _PStat("none", _STATUS_NOPERM, "")
            ELSE IF r.err = "ENOTDIR" THEN _PStat("none", _STATUS_INVALID, "")
            ELSE _PStat("none", "raise", r.err))

\* UnionFS._get_read_branch from the i-th sorted branch on:
\* Ok([branch, stats]) or the error raised.
RECURSIVE read_branch_from(_, _, _)
read_branch_from(w, path, i) ==
    IF i > Len(w.sorted_branches) THEN Err("ENOENT")
    ELSE Let(FsCall(w, w.sorted_branches[i].fs, Call("stat", path)).res,
             LAMBDA stats :
                 IF IsOk(stats)
                 THEN Ok([branch |-> w.sorted_branches[i], stats |-> stats.val])
                 ELSE IF stats.err = "ENOENT" THEN read_branch_from(w, path, i + 1)
                 ELSE Err(stats.err))

_get_read_branch(w, path) == read_branch_from(w, path, 1)

\* An exception _copy_stat lets through: with strict unset, none that is an
\* OSError.
Escapes(r) == ~IsOk(r.res) /\ (strict \/ ~IsOSError(r.res.err))

_copy_stat(w, path, branch, stats) ==
    Let(FsCall(w, branch.fs,
               [Call("chmod", path) EXCEPT !.mode = S_IMODE(stats.st_mode)]),
        LAMBDA r1 :
            IF Escapes(r1) THEN r1
            ELSE Let(FsCall(r1.w, branch.fs,
                            [Call("chown", path) EXCEPT !.uid = stats.st_uid,
                                                        !.gid = stats.st_gid]),
                     LAMBDA r2 : IF Escapes(r2) THEN r2 ELSE Ret(r2.w, Ok("none"))))

\* The else branch of the loop of UnionFS._copy_tree: the component is made
\* in the branch with the attributes the union shows for it.
copy_component(w, component, branch) ==
    Let(FsCall(w, "U", Call("stat", component)).res,
        LAMBDA old_stat :
            IF ~IsOk(old_stat) THEN Ret(w, old_stat)
            ELSE Let(FsCall(w, branch.fs, Call("mkdir", component)),
                     LAMBDA made :
                         IF ~IsOk(made.res) THEN made
                         ELSE _copy_stat(made.w, component, branch, old_stat.val)))

\* The if branch: the component is there, it has to be a directory.
check_component_dir(w, component, branch) ==
    Let(FsIsdir(w, branch.fs, component),
        LAMBDA dir : IF ~IsOk(dir) THEN Ret(w, dir)
                     ELSE IF ~dir.val THEN Ret(w, Err("ENOTDIR"))
                     ELSE Ret(w, Ok("none")))

\* UnionFS._copy_tree, from the i-th component of iter_path(path) on.
RECURSIVE copy_tree_from(_, _, _, _)
copy_tree_from(w, path, i, branch) ==
    IF i > Len(iter_path(path)) THEN Ret(w, Ok("none"))
    ELSE Let(FsAccess(w, branch.fs, iter_path(path)[i]),
             LAMBDA acc :
                 IF ~IsOk(acc) THEN Ret(w, acc)
                 ELSE Let(IF acc.val
                          THEN check_component_dir(w, iter_path(path)[i], branch)
                          ELSE copy_component(w, iter_path(path)[i], branch),
                          LAMBDA done :
                              IF ~IsOk(done.res) THEN done
                              ELSE copy_tree_from(done.w, path, i + 1, branch)))

_copy_tree(w, path, branch) == copy_tree_from(w, path, 1, branch)

S_IFLNK == 40960
S_ISLNK(mode) == BitAnd(mode, S_IFMT) = S_IFLNK

\* dst.write(src.read()) on the streams hs and hd
Transfer(w, hs, hd) ==
    [[w EXCEPT !.mem[hs.mem][hs.path] = BufAfterRead(@)]
        EXCEPT !.mem[hd.mem][hd.path] = BufWrite(@, BufRead(w.mem[hs.mem][hs.path]))]

\* `with old.open_binary(path, 'rb') as src, target.open_binary(path, 'wb')
\* as dst: dst.write(src.read())`
CopyFile(w, path, target_branch, old_branch) ==
    Let(FsCall(w, old_branch.fs, [Call("open", path) EXCEPT !.omode = MODE_RB]),
        LAMBDA src :
            IF ~IsOk(src.res) THEN src
            ELSE Let(FsCall(src.w, target_branch.fs,
                            [Call("open", path) EXCEPT !.omode = MODE_WB]),
                     LAMBDA dst :
                         IF ~IsOk(dst.res) THEN dst
                         ELSE Ret(Transfer(dst.w, src.res.val, dst.res.val),
                                  Ok("none"))))

\* target_branch.fs.symlink(path, old_branch.fs.readlink(path))
CopyLink(w, path, target_branch, old_branch) ==
    Let(FsCall(w, old_branch.fs, Call("readlink", path)).res,
        LAMBDA target :
            IF ~IsOk(target) THEN Ret(w, target)
            ELSE FsCall(w, target_branch.fs,
                        [Call("symlink", path) EXCEPT !.target = target.val]))

_copy_object(w, path, target_branch, old_branch, for_overwrite) ==
    Let(FsCall(w, old_branch.fs, Call("lstat", path)).res,
        LAMBDA old_stat :
            IF ~IsOk(old_stat) THEN Ret(w, old_stat)
            ELSE Let(IF S_ISDIR(old_stat.val.st_mode)
                     THEN FsCall(w, target_branch.fs, Call("mkdir", path))
                     ELSE IF S_ISLNK(old_stat.val.st_mode)
                     THEN CopyLink(w, path, target_branch, old_branch)
                     ELSE IF S_ISREG(old_stat.val.st_mode)
                     THEN IF for_overwrite
                          THEN WriteFile(w, target_branch.fs, path, << >>)
                          ELSE CopyFile(w, path, target_branch, old_branch)
                     ELSE Ret(w, Err("FSError")),
                     LAMBDA made :
                         IF ~IsOk(made.res) THEN made
                         ELSE _copy_stat(made.w, path, target_branch, old_stat.val)))

_EXIST_ANY == "any"
_EXIST_YES == "yes"
_EXIST_NO == "no"

\* Step 1 of UnionFS._copy_on_write: "" when the checks pass, else the error.
copy_on_write_check(w, target_path, expected) ==
    Let(FsIsdir(w, "U", dirname(target_path)),
        LAMBDA pdir :
            IF ~IsOk(pdir) THEN pdir.err
            ELSE IF ~pdir.val THEN "ENOTDIR"
            ELSE IF expected = _EXIST_ANY THEN ""
            ELSE Let(FsAccess(w, "U", target_path),
                     LAMBDA seen :
                         IF ~IsOk(seen) THEN seen.err
                         ELSE IF expected = _EXIST_YES /\ ~seen.val THEN "ENOENT"
                         ELSE IF expected = _EXIST_NO /\ seen.val THEN "EEXIST"
                         ELSE ""))

\* Step 3 of UnionFS._copy_on_write.
copy_existing(w, target_path, branch, for_overwrite) ==
    Let(_get_read_branch(w, target_path),
        LAMBDA old :
            IF ~IsOk(old)
            THEN IF IsOSError(old.err) /\ Errno(old.err) = "ENOENT"
                 THEN Ret(w, Ok("none"))
                 ELSE Ret(w, old)
            ELSE _copy_object(w, target_path, branch, old.val.branch, for_overwrite))

_copy_on_write(w, target_path, branch, expected, for_overwrite) ==
    Let(copy_on_write_check(w, target_path, expected),
        LAMBDA chk :
            IF chk # "" THEN Ret(w, Err(chk))
            ELSE Let(_copy_tree(w, dirname(target_path), branch),
                     LAMBDA tree :
                         IF ~IsOk(tree.res) THEN tree
                         ELSE copy_existing(tree.w, target_path, branch,
                                            for_overwrite)))

\* A UnionFS that writes to its writable branch of the highest rank.
_get_write_branch_last(w, path, expected, for_overwrite) ==
    IF w.write_branches = << >> THEN Ret(w, Err("EACCES"))
    ELSE Let(_copy_on_write(w, path, w.write_branches[Len(w.write_branches)],
                            expected, for_overwrite),
             LAMBDA cow : IF ~IsOk(cow.res) THEN cow
                          ELSE Ret(cow.w, Ok(w.write_branches[Len(w.write_branches)])))

\* UnionFS._get_write_branch: the world after the copy, and the branch.
_get_write_branch(w, path, expected, for_overwrite) ==
    IF w.write_branches = << >> THEN Ret(w, Err("EACCES"))
    ELSE Let(_copy_on_write(w, path, w.write_branches[1], expected, for_overwrite),
             LAMBDA cow : IF ~IsOk(cow.res) THEN cow
                          ELSE Ret(cow.w, Ok(w.write_branches[1])))

UnAccess(w, c) ==
    Let(_get_read_branch(w, c.path),
        LAMBDA rb :
            IF ~IsOk(rb)
            THEN IF IsOSError(rb.err)
                    /\ Errno(rb.err) \in {"ENOTDIR", "EACCES", "ENOENT"}
                 THEN Ret(w, Ok(FALSE))
                 ELSE Ret(w, rb)
            ELSE FsCall(w, rb.val.branch.fs, c))

\* The body of the loop of UnionFS._get_dir_branches for a branch whose
\* path exists: the branch and the rest, or the end of the iteration.
dir_branch(w, path, branch, pstat, rest) ==
    Let(FsCall(w, branch.fs,
               [Call("access", path) EXCEPT !.mode = BitAnd(R_OK, X_OK)]).res,
        LAMBDA acc :
            IF ~IsOk(acc) THEN acc
            ELSE IF acc.val /\ S_ISDIR(pstat.stats.st_mode)
                 THEN IF IsOk(rest) THEN Ok(<<branch>> \o rest.val) ELSE rest
            ELSE Ok(<< >>))

\* UnionFS._get_dir_branches, from the i-th sorted branch on: the branches
\* yielded, or the error raised while they are listed.
RECURSIVE dir_branches_from(_, _, _)
dir_branches_from(w, path, i) ==
    IF i > Len(w.sorted_branches) THEN Ok(<< >>)
    ELSE Let(_get_branch_pstat(w, w.sorted_branches[i], path),
             LAMBDA pstat :
                 IF pstat.status = "raise" THEN Err(pstat.err)
                 ELSE IF pstat.status \in
                            {_STATUS_DELETED, _STATUS_INVALID, _STATUS_NOPERM}
                      THEN Ok(<< >>)
                 ELSE IF pstat.status = _STATUS_UNKNOWN
                      THEN dir_branches_from(w, path, i + 1)
                 ELSE dir_branch(w, path, w.sorted_branches[i], pstat,
                                 dir_branches_from(w, path, i + 1)))

_get_dir_branches(w, path) == dir_branches_from(w, path, 1)

\* `status == _STATUS_...` in UnionFS._listdir, for status the _PStat tuple
\* that _get_branch_pstat returns: a tuple never equals a string.
PStatEqualsStatus(pstat, status) == FALSE

\* The inner loop of UnionFS._listdir over the branches above the one that
\* lists member_path: Ok(valid), or the error raised.
RECURSIVE member_valid(_, _, _, _)
member_valid(w, higher, j, member_path) ==
    IF j > Len(higher) THEN Ok(TRUE)
    ELSE Let(_get_branch_pstat(w, higher[j], member_path),
             LAMBDA status :
                 IF status.status = "raise" THEN Err(status.err)
                 ELSE IF PStatEqualsStatus(status, _STATUS_DELETED) THEN Ok(FALSE)
                 ELSE IF ~PStatEqualsStatus(status, _STATUS_UNKNOWN)
                      THEN Err("AssertionError")
                 ELSE member_valid(w, higher, j + 1, member_path))

\* The members the rank-th listed branch adds: for each name not seen yet,
\* the outcome of the inner loop.
new_members(w, path, brs, rank, seen, listed) ==
    [m \in listed \ seen |->
        member_valid(w, SubSeq(brs, 1, rank - 1), 1, join(path, m))]

\* The outer loop of UnionFS._listdir, from the rank-th listed branch on.
RECURSIVE listdir_from(_, _, _, _, _, _)
listdir_from(w, path, brs, rank, seen, members) ==
    IF rank > Len(brs) THEN Ok(members)
    ELSE Let(FsCall(w, brs[rank].fs, Call("listdir", path)).res,
             LAMBDA listed :
                 IF ~IsOk(listed) THEN listed
                 ELSE Let(new_members(w, path, brs, rank, seen, listed.val),
                          LAMBDA new :
                              IF \E m \in DOMAIN new : ~IsOk(new[m])
                              THEN new[CHOOSE m \in DOMAIN new : ~IsOk(new[m])]
                              ELSE listdir_from(w, path, brs, rank + 1,
                                       seen \cup DOMAIN new,
                                       members \cup {m \in DOMAIN new : new[m].val})))

UnListdir(w, c) ==
    Let(_get_dir_branches(w, c.path),
        LAMBDA brs :
            IF ~IsOk(brs) THEN Ret(w, brs)
            ELSE IF brs.val = << >> THEN Ret(w, Err("ENOENT"))
            ELSE Ret(w, listdir_from(w, c.path, brs.val, 1, {}, {})))

\* _lstat, _readlink, _stat and the read-only _open_binary
UnRead(w, c) ==
    Let(_get_read_branch(w, c.path),
        LAMBDA rb :
            IF ~IsOk(rb) THEN Ret(w, rb)
            ELSE IF c.op = "stat" THEN Ret(w, Ok(rb.val.stats))
            ELSE FsCall(w, rb.val.branch.fs, c))

\* The keyword arguments a writing method gives _get_write_branch.
expected_of(c) ==
    CASE c.op \in {"open", "rmdir"} -> _EXIST_ANY
      [] c.op \in {"chmod", "chown", "unlink"} -> _EXIST_YES
      [] c.op \in {"mkdir", "symlink"} -> _EXIST_NO

for_overwrite_of(c) == c.op \in {"open", "unlink"}

\* The write-mode _open_binary, _chmod, _chown, _mkdir, _symlink, _unlink
UnWrite(w, c) ==
    Let(_get_write_branch(w, c.path, expected_of(c), for_overwrite_of(c)),
        LAMBDA wb : IF ~IsOk(wb.res) THEN wb ELSE FsCall(wb.w, wb.res.val.fs, c))

\* UnionFS._rmdir: the emptiness test; "" when the directory lists empty.
rmdir_check(w, c) ==
    Let(FsCall(w, "U", Call("listdir", c.path)).res,
        LAMBDA contents :
            IF ~IsOk(contents) THEN contents.err
            ELSE IF contents.val # {} THEN "ENOTEMPTY"
            ELSE "")

UnRmdir(w, c) ==
    Let(rmdir_check(w, c),
        LAMBDA e : IF e # "" THEN Ret(w, Err(e)) ELSE UnWrite(w, c))

UnCall(w, c) ==
    IF c.op = "access" THEN UnAccess(w, c)
    ELSE IF c.op = "listdir" THEN UnListdir(w, c)
    ELSE IF \/ c.op \in {"lstat", "readlink", "stat"}
            \/ c.op = "open" /\ is_readonly_open_mode(c.omode)
    THEN UnRead(w, c)
    ELSE IF c.op = "rmdir" THEN UnRmdir(w, c)
    ELSE UnWrite(w, c)

(* -------------------------------- MountFS ------------------------------- *)

\* MountFS._get_subfs: the first entry of the dispatch list whose anchor is a
\* parent of path; 0 when there is none.
RECURSIVE subfs_from(_, _, _)
subfs_from(w, path, i) ==
    IF i > Len(w.sorted_filesystems) THEN 0
    ELSE IF is_parent(w.sorted_filesystems[i][1], path) THEN i
    ELSE subfs_from(w, path, i + 1)

_get_subfs(w, path) == subfs_from(w, path, 1)

\* A MountFS that forwards the path as it was given.
_map_path_unchanged(w, path) ==
    Let(_get_subfs(w, path),
        LAMBDA i :
            IF i = 0 THEN Err("FSError")
            ELSE Ok([relpath |-> path, subfs |-> w.sorted_filesystems[i][2]]))

\* MountFS._map_path: the path below the sub-filesystem's root, and the
\* sub-filesystem.  os.path.join(ROOT, relpath) of a relative path is the
\* path of the same components.
_map_path(w, path) ==
    Let(_get_subfs(w, path),
        LAMBDA i :
            IF i = 0 THEN Err("FSError")
            ELSE Ok([relpath |-> relpath(path, w.sorted_filesystems[i][1]),
                     subfs |-> w.sorted_filesystems[i][2]]))

\* The methods that map the path and forward the call.
MnForward(w, c) ==
    Let(_map_path(w, c.path),
        LAMBDA m : IF ~IsOk(m) THEN Ret(w, m)
                   ELSE FsCall(w, m.val.subfs, [c EXCEPT !.path = m.val.relpath]))

\* MountFS._symlink, for the mapped link name and the mapped target.
MnSymlink(w, c, link, target) ==
    IF ~IsOk(link) THEN Ret(w, link)
    ELSE IF ~IsOk(target) THEN Ret(w, target)
    ELSE IF target.val.subfs # link.val.subfs THEN Ret(w, Err("FSError"))
    ELSE FsCall(w, link.val.subfs,
                [c EXCEPT !.path = link.val.relpath, !.target = target.val.relpath])

MnCall(w, c) ==
    IF c.op = "symlink"
    THEN MnSymlink(w, c, _map_path(w, c.path), _map_path(w, c.target))
    ELSE IF c.op = "rmdir"
            /\ \E anchor \in DOMAIN w.filesystems : is_parent(c.path, anchor)
    THEN Ret(w, Err("EBUSY"))
    ELSE MnForward(w, c)

(* ------------------------------- dispatch ------------------------------- *)

FsCall(w, f, c) ==
    CASE Kind(f) = "memory" -> MemCall(w, f, c)
      [] Kind(f) = "whiteout" -> WhCall(w, f, c)
      [] Kind(f) = "readonly" -> RoCall(w, f, c)
      [] Kind(f) = "union" -> UnCall(w, c)
      [] Kind(f) = "mount" -> MnCall(w, c)
      [] Kind(f) = "chroot" -> ChCall(w, f, c)

\* The world of the current state.
World ==
    [mem |-> mem, wc |-> wc, sorted_branches |-> sorted_branches,
     write_branches |-> write_branches, filesystems |-> filesystems,
     sorted_filesystems |-> sorted_filesystems]

-----------------------------------------------------------------------------
(* UnionFS branch management.                                              *)

FEATURE_READONLY == "readonly"
FEATURE_WHITEOUT == "whiteout"

\* BaseFS.has_feature, WrappingFS.has_feature and UnionFS.has_feature
RECURSIVE has_feature(_, _)
has_feature(f, feature) ==
    CASE Kind(f) = "memory" -> FALSE
      [] Kind(f) = "whiteout" ->
            feature = FEATURE_WHITEOUT \/ has_feature(Wrapped(f), feature)
      [] Kind(f) = "readonly" ->
            feature = FEATURE_READONLY \/ has_feature(Wrapped(f), feature)
      [] Kind(f) = "union" ->
            IF feature = FEATURE_READONLY THEN write_branches = << >>
            ELSE feature = FEATURE_WHITEOUT
      [] Kind(f) = "mount" -> FALSE

\* sorted(values, key=rank): the values of bs in ascending rank (the ranks of
\* a branch mapping are distinct).
RECURSIVE SortByRank(_)
SortByRank(bs) ==
    IF bs = {} THEN << >>
    ELSE LET b == CHOOSE x \in bs : \A y \in bs : x.rank <= y.rank
         IN <<b>> \o SortByRank(bs \ {b})

Values(fn) == {fn[k] : k \in DOMAIN fn}

SelectWritable(seq) == SelectSeq(seq, LAMBDA b : b.writable)

\* A UnionFS whose write-branch list holds every branch.
_update_branches_cache_all(bs) ==
    /\ branches' = bs
    /\ sorted_branches' = SortByRank(Values(bs))
    /\ write_branches' = SortByRank(Values(bs))

\* UnionFS._update_branches_cache, for the branch mapping bs.
_update_branches_cache(bs) ==
    /\ branches' = bs
    /\ sorted_branches' = SortByRank(Values(bs))
    /\ write_branches' = SelectWritable(SortByRank(Values(bs)))

\* rank=None
NoRank == -1

\* A UnionFS whose add_branch does not compare the rank with the ranks of
\* its branches.
add_branch_error_any_rank(fs, ref, rank, writable) ==
    IF ref \in DOMAIN branches THEN "ValueError"
    ELSE IF writable /\ has_feature(fs, FEATURE_READONLY) THEN "ValueError"
    ELSE IF writable /\ ~has_feature(fs, FEATURE_WHITEOUT) THEN "ValueError"
    ELSE IF rank = NoRank /\ sorted_branches = << >> THEN "ValueError"
    ELSE ""

\* The error add_branch raises, "" when it adds the branch.
add_branch_error(fs, ref, rank, writable) ==
    IF ref \in DOMAIN branches THEN "ValueError"
    ELSE IF \E i \in DOMAIN sorted_branches : sorted_branches[i].rank = rank
         THEN "ValueError"
    ELSE IF writable /\ has_feature(fs, FEATURE_READONLY) THEN "ValueError"
    ELSE IF writable /\ ~has_feature(fs, FEATURE_WHITEOUT) THEN "ValueError"
    ELSE IF rank = NoRank /\ sorted_branches = << >> THEN "ValueError"
    ELSE ""

Max(S) == CHOOSE x \in S : \A y \in S : y <= x

add_branch(fs, ref, rank, writable) ==
    IF add_branch_error(fs, ref, rank, writable) # ""
    THEN UNCHANGED <<branches, sorted_branches, write_branches>>
    ELSE LET r == IF rank = NoRank
                  THEN 1 + Max({sorted_branches[i].rank : i \in DOMAIN sorted_branches})
                  ELSE rank
         IN _update_branches_cache((ref :> _Branch(fs, r, writable)) @@ branches)

\* The error remove_branch raises, "" when it removes the branch:
\* del self._branches[ref] of a missing key.
remove_branch_error(ref) == IF ref \notin DOMAIN branches THEN "KeyError" ELSE ""

\* UnionFS.remove_branch
remove_branch(ref) ==
    IF remove_branch_error(ref) # ""
    THEN UNCHANGED <<branches, sorted_branches, write_branches>>
    ELSE _update_branches_cache([k \in (DOMAIN branches) \ {ref} |-> branches[k]])

-----------------------------------------------------------------------------
(* MountFS mount table.                                                    *)

\* ord() of the characters the names of the model are made of.
ord(ch) ==
    CASE ch = "." -> 46 [] ch = "a" -> 97 [] ch = "b" -> 98
      [] ch = "f" -> 102 [] ch = "x" -> 120

\* p < q as strings, for two paths of the same number of one-character names.
RECURSIVE StrLess(_, _)
StrLess(p, q) ==
    IF p = << >> \/ q = << >> THEN FALSE
    ELSE IF Head(p) # Head(q) THEN ord(Head(p)) < ord(Head(q))
    ELSE StrLess(Tail(p), Tail(q))

\* The sort key of _update_mount_cache: (len(path), path, subfs); the paths
\* of a mount table are distinct.
KeyLess(p, q) ==
    \/ strlen(p) < strlen(q)
    \/ strlen(p) = strlen(q) /\ StrLess(p, q)

\* list(reversed(sorted(items, key=...)))
RECURSIVE SortedItems(_)
SortedItems(fss) ==
    IF DOMAIN fss = {} THEN << >>
    ELSE LET top == CHOOSE p \in DOMAIN fss :
                        \A q \in (DOMAIN fss) \ {p} : KeyLess(q, p)
         IN <<<<top, fss[top]>>>>
            \o SortedItems([q \in (DOMAIN fss) \ {top} |-> fss[q]])

Reverse(seq) == [i \in 1..Len(seq) |-> seq[Len(seq) + 1 - i]]

\* A MountFS whose dispatch list is in ascending order.
_update_mount_cache_ascending(fss) ==
    /\ filesystems' = fss
    /\ sorted_filesystems' = Reverse(SortedItems(fss))

\* MountFS._update_mount_cache, for the mount table fss.
_update_mount_cache(fss) ==
    /\ filesystems' = fss
    /\ sorted_filesystems' = SortedItems(fss)

\* A MountFS whose mount_fs does not look at the mount point's directory.
mount_fs_error_no_isdir(subfs, mount_point) ==
    IF DOMAIN filesystems = {} /\ mount_point # ROOT THEN "ValueError"
    ELSE IF mount_point \in DOMAIN filesystems THEN "FSError"
    ELSE ""

\* The error mount_fs raises, "" when it mounts.
mount_fs_error(subfs, mount_point) ==
    IF DOMAIN filesystems = {} /\ mount_point # ROOT THEN "ValueError"
    ELSE IF mount_point \in DOMAIN filesystems THEN "FSError"
    ELSE IF DOMAIN filesystems = {} THEN ""
    ELSE Let(FsIsdir(World, "M", mount_point),
             LAMBDA dir : IF ~IsOk(dir) THEN dir.err
                          ELSE IF ~dir.val THEN "FSError"
                          ELSE "")

mount_fs(subfs, mount_point) ==
    IF mount_fs_error(subfs, normpath(mount_point)) # ""
    THEN UNCHANGED <<filesystems, sorted_filesystems>>
    ELSE _update_mount_cache((normpath(mount_point) :> subfs) @@ filesystems)

\* A MountFS whose umount_fs does not look for mounts below the mount point.
umount_fs_error_no_busy(mount_point) ==
    IF mount_point \notin DOMAIN filesystems THEN "EINVAL"
    ELSE IF mount_point = ROOT THEN "EINVAL"
    ELSE ""

\* The error umount_fs raises, "" when it unmounts.
umount_fs_error(mount_point) ==
    IF mount_point \notin DOMAIN filesystems THEN "EINVAL"
    ELSE IF \E anchor \in DOMAIN filesystems :
                is_parent(mount_point, anchor) /\ anchor # mount_point
         THEN "EBUSY"
    ELSE IF mount_point = ROOT THEN "EINVAL"
    ELSE ""

umount_fs(mount_point) ==
    IF umount_fs_error(mount_point) # ""
    THEN UNCHANGED <<filesystems, sorted_filesystems>>
    ELSE _update_mount_cache(
             [q \in (DOMAIN filesystems) \ {mount_point} |-> filesystems[q]])

-----------------------------------------------------------------------------
(* Actions.                                                                *)

\* The calls that write: the read-only opens are reads.
IsWriteCall(c) ==
    \/ c.op \in {"chmod", "chown", "mkdir", "symlink", "rmdir", "unlink"}
    \/ c.op = "open" /\ ~is_readonly_open_mode(c.omode)

NoCall == [fs |-> "", call |-> Call("none", ROOT), err |-> ""]

\* `last` is the last call that succeeded in writing or that changed the
\* state: a call that fails and changes nothing, and a read, leave it alone.
Record(f, c, r) ==
    /\ mem' = r.w.mem
    /\ wc' = r.w.wc
    /\ last' = IF r.w # World \/ (IsOk(r.res) /\ IsWriteCall(c))
               THEN [fs |-> f, call |-> c, err |-> r.res.err]
               ELSE last

\* One call on instance f.
DoCall(f, c) == Record(f, c, FsCall(World, f, c))

\* The write of b on the stream the open that returned r gave, while the
\* buffer stays within MaxLen.
WriteStream(f, p, b, r) ==
    /\ LenAfterWrite(r, b) <= MaxLen
    /\ Record(f, [OpenCall(p, MODE_WB) EXCEPT !.data = b], StreamWrite(r, b))

\* One write-mode open on instance f followed by the write of b.
DoWrite(f, p, b) == WriteStream(f, p, b, FsCall(World, f, OpenCall(p, MODE_WB)))

\* One read-only open on instance f followed by the read.
DoRead(f, p) == Record(f, OpenCall(p, MODE_RB), ReadFile(World, f, p))

\* The calls of the interface tried: reads and writes on the paths P,
\* chmod and chown on the paths A.
ChmodModes == {493}
ChownIds == {<<1, 1>>}
ReadCalls(P) ==
    {Call(op, p) : op \in {"stat", "lstat", "readlink", "listdir"}, p \in P}
    \cup {[Call("access", p) EXCEPT !.mode = m] : p \in P, m \in {F_OK, W_OK}}
    \cup {[Call("open", p) EXCEPT !.omode = MODE_RB] : p \in P}
ChmodCalls(A) == {[Call("chmod", p) EXCEPT !.mode = m] : p \in A, m \in ChmodModes}
ChownCalls(A) ==
    {[Call("chown", p) EXCEPT !.uid = i[1], !.gid = i[2]] : p \in A, i \in ChownIds}
SymlinkCalls(P) == {[Call("symlink", p) EXCEPT !.target = ROOT] : p \in P}
OpenWCalls(P) == {[Call("open", p) EXCEPT !.omode = MODE_WB] : p \in P}
WriteCalls(P, A) ==
    {Call(op, p) : op \in {"mkdir", "unlink", "rmdir"}, p \in P}
    \cup ChmodCalls(A) \cup ChownCalls(A) \cup SymlinkCalls(P)

UnionVars == <<branches, sorted_branches, write_branches>>
MountVars == <<filesystems, sorted_filesystems>>

-----------------------------------------------------------------------------
(* SpecW: a WhiteoutFS wA over the MemoryFS mA.  The MemoryFS is filled    *)
(* through its own interface before it is wrapped; afterwards every call   *)
(* goes through wA.                                                        *)

WPaths == {ROOT, <<"a">>, <<"a", "x">>}
WAttrPaths == {<<"a">>}
WBytes == {<< >>, <<1>>}

InitW ==
    /\ mem = [m \in MemIds |-> NewMemoryFS]
    /\ wc = [f \in {"wA", "wB"} |-> {}]
    /\ branches = << >>
    /\ sorted_branches = << >>
    /\ write_branches = << >>
    /\ filesystems = << >>
    /\ sorted_filesystems = << >>
    /\ last = NoCall

WSetup ==
    /\ last.fs \in {"", "mA"}
    /\ \/ \E p \in WPaths \ {ROOT} : DoCall("mA", Call("mkdir", p))
       \/ \E p \in WPaths \ {ROOT} : DoWrite("mA", p, <<1>>)
    /\ UNCHANGED <<UnionVars, MountVars>>

WCall ==
    /\ \E c \in ReadCalls(WPaths) \cup WriteCalls(WPaths, WAttrPaths) : DoCall("wA", c)
    /\ UNCHANGED <<UnionVars, MountVars>>

WWrite ==
    /\ \E p \in WPaths, b \in WBytes : DoWrite("wA", p, b)
    /\ UNCHANGED <<UnionVars, MountVars>>

WRead ==
    /\ \E p \in WPaths : DoRead("wA", p)
    /\ UNCHANGED <<UnionVars, MountVars>>

NextW == WSetup \/ WCall \/ WWrite \/ WRead

SpecW == InitW /\ [][NextW]_vars

-----------------------------------------------------------------------------
(* SpecU: a UnionFS U over the branches A (the WhiteoutFS wA over mA,      *)
(* writable, rank 1) and B (over mB: the MemoryFS itself, rank 0 or 2, or  *)
(* the WhiteoutFS wB, writable, rank 0).  The MemoryFS instances are  *)
(* filled through their own interface and the branches added before the    *)
(* first write through U.                                                  *)

UPaths == {ROOT, <<"a">>, <<"a", "f">>}
UReadPaths == {<<"a">>}
UWritePaths == UPaths \ {ROOT}
UAttrPaths == {<<"a", "f">>}
BranchInputs ==
    {[fs |-> "wA", ref |-> "A", rank |-> 1, writable |-> TRUE]}
    \cup {[fs |-> "mB", ref |-> "B", rank |-> r, writable |-> wr] :
             r \in {0, 2}, wr \in BOOLEAN}
    \cup {[fs |-> "wB", ref |-> "B", rank |-> 0, writable |-> TRUE]}
    \cup {[fs |-> "mB", ref |-> "B", rank |-> 1, writable |-> FALSE],
          [fs |-> "rB", ref |-> "B", rank |-> 0, writable |-> TRUE],
          [fs |-> "mB", ref |-> "B", rank |-> NoRank, writable |-> FALSE]}
BranchRefs == {"A", "B", "C"}

InitU == InitW

USetup ==
    /\ last.fs # "U"
    /\ branches = << >>
    /\ \/ \E m \in MemIds : DoCall(m, Call("mkdir", <<"a">>))
       \/ DoWrite("mB", <<"a", "f">>, <<1>>)
    /\ UNCHANGED <<UnionVars, MountVars>>

UAddBranch ==
    /\ last.fs # "U"
    /\ \E b \in BranchInputs : add_branch(b.fs, b.ref, b.rank, b.writable)
    /\ UNCHANGED <<mem, wc, last, MountVars>>

URemoveBranch ==
    /\ last.fs # "U"
    /\ \E ref \in BranchRefs : remove_branch(ref)
    /\ UNCHANGED <<mem, wc, last, MountVars>>

UCall ==
    /\ \E c \in ReadCalls(UReadPaths) \cup WriteCalls(UWritePaths, UAttrPaths) :
          DoCall("U", c)
    /\ UNCHANGED <<UnionVars, MountVars>>

UWrite ==
    /\ \E p \in UWritePaths : DoWrite("U", p, <<2>>)
    /\ UNCHANGED <<UnionVars, MountVars>>

URead ==
    /\ \E p \in UAttrPaths : DoRead("U", p)
    /\ UNCHANGED <<UnionVars, MountVars>>

NextU == USetup \/ UAddBranch \/ URemoveBranch \/ UCall \/ UWrite \/ URead

SpecU == InitU /\ [][NextU]_vars

-----------------------------------------------------------------------------
(* SpecM: a MountFS M whose mount table is built from the MemoryFS         *)
(* instances mA and mB; every call goes through M.                         *)

MPaths == {ROOT, <<"a">>, <<"b">>, <<"a", "x">>}
MFilePaths == {<<"a", "x">>}
MCalls ==
    {Call("mkdir", p) : p \in MPaths \ {ROOT}}
    \cup {Call(op, p) : op \in {"stat", "rmdir", "unlink"}, p \in MFilePaths}
    \cup SymlinkCalls(MFilePaths)
MountInputs ==
    {<<"mA", ROOT>>, <<"mB", <<"a">>>>, <<"mB", <<"b">>>>, <<"mA", <<"a", "x">>>>}

InitM == InitW

\* A mount_fs or umount_fs call that raised err: it is the last call when
\* it succeeded.
RecordMount(op, mount_point, err) ==
    /\ last' = IF err = ""
               THEN [fs |-> "M", call |-> Call(op, mount_point), err |-> err]
               ELSE last
    /\ UNCHANGED <<mem, wc, UnionVars>>

MMount ==
    \E i \in MountInputs :
        /\ mount_fs(i[1], i[2])
        /\ RecordMount("mount_fs", i[2], mount_fs_error(i[1], normpath(i[2])))

MUmount ==
    \E mount_point \in MPaths :
        /\ umount_fs(mount_point)
        /\ RecordMount("umount_fs", mount_point, umount_fs_error(mount_point))

MCall ==
    /\ \E c \in MCalls : DoCall("M", c)
    /\ UNCHANGED <<UnionVars, MountVars>>

MWrite ==
    /\ \E p \in MFilePaths : DoWrite("M", p, <<1>>)
    /\ UNCHANGED <<UnionVars, MountVars>>

MRead ==
    /\ \E p \in MFilePaths : DoRead("M", p)
    /\ UNCHANGED <<UnionVars, MountVars>>

NextM == MMount \/ MUmount \/ MCall \/ MWrite \/ MRead

SpecM == InitM /\ [][NextM]_vars

-----------------------------------------------------------------------------
(* Properties of the WhiteoutFS wA over the inner MemoryFS mA (SpecW).     *)
(* A property of "the state after a call" is stated, in every reachable    *)
(* state, of the world the call returns.                                   *)

\* Whether p is in the view of instance f in world w.
Visible(w, f, p) == FsAccess(w, f, p) = Ok(TRUE)

\* The last call that wrote was op on instance f, and it succeeded.
LastWas(f, ops) == last.fs = f /\ last.call.op \in ops /\ last.err = ""

\* C3: for a path p in wA's view, after wA.unlink(p) (or wA.rmdir(p)) succeeds
\* wA.access(p, F_OK) is false and mA.access(p, F_OK) is what it was; no
\* wA.unlink or wA.rmdir, successful or not, changes the state of mA.
C3_WhiteoutHidesAndKeepsInner ==
    \A p \in WPaths, op \in {"unlink", "rmdir"} :
        LET r == FsCall(World, "wA", Call(op, p))
        IN /\ r.w.mem = mem
           /\ (Visible(World, "wA", p) /\ IsOk(r.res)) =>
                 /\ FsAccess(r.w, "wA", p) = Ok(FALSE)
                 /\ FsAccess(r.w, "mA", p) = FsAccess(World, "mA", p)

\* C3 witness: an unlink through wA succeeded on a file mA still holds, and
\* wA no longer shows it.
C3_Witness ==
    /\ LastWas("wA", {"unlink"})
    /\ Has(mem["mA"], last.call.path)
    /\ mem["mA"][last.call.path].kind = "file"
    /\ last.call.path \in wc["wA"]
    /\ ~Visible(World, "wA", last.call.path)

\* C4: for a directory d visible through wA, wA.listdir(d) is exactly the
\* names n of mA.listdir(d) whose path d/n is not in the whiteout cache.
C4_ListdirOmitsWhiteouts ==
    \A d \in WPaths :
        LET r == FsCall(World, "wA", Call("listdir", d)).res
            i == FsCall(World, "mA", Call("listdir", d)).res
        IN IsOk(r) =>
              /\ IsOk(i)
              /\ r.val = {n \in i.val : join(d, n) \notin wc["wA"]}

\* C5: if p is in the whiteout cache and its parent is visible, then after a
\* successful creation at p through wA (write-mode open, mkdir, symlink) p is
\* out of the whiteout cache and wA.access(p, F_OK) is true; after a failed
\* creation p is still in the whiteout cache.
C5_Resurrection ==
    \A p \in WPaths \ {ROOT} :
        \A c \in {Call("mkdir", p)} \cup SymlinkCalls({p}) \cup OpenWCalls({p}) :
            LET r == FsCall(World, "wA", c)
            IN (p \in wc["wA"] /\ Visible(World, "wA", dirname(p))) =>
                  IF IsOk(r.res)
                  THEN p \notin r.w.wc["wA"] /\ Visible(r.w, "wA", p)
                  ELSE p \in r.w.wc["wA"]

\* C6: when p or an ancestor of p is in the whiteout cache, stat, lstat,
\* readlink, listdir, the read-only open, chmod and chown of p through wA
\* fail with DeletedObjectError and leave mA alone, and access is false for
\* every mask.
C6_ShadowedPathIsDeleted ==
    \A p \in WPaths :
        (\E i \in DOMAIN iter_path(p) : iter_path(p)[i] \in wc["wA"]) =>
            /\ \A c \in (ReadCalls({p}) \cup ChmodCalls({p}) \cup ChownCalls({p})) :
                  LET r == FsCall(World, "wA", c)
                  IN /\ r.w = World
                     /\ IF c.op = "access" THEN r.res = Ok(FALSE)
                        ELSE r.res = Err("DELETED")

-----------------------------------------------------------------------------
(* Properties of the UnionFS U (SpecU).                                    *)

\* The MemoryFS a branch filesystem stores its objects in.
Underlying(f) == IF Kind(f) = "memory" THEN f ELSE Wrapped(f)

\* The state of a branch filesystem in world w: its objects and, for a
\* WhiteoutFS, its whiteout cache.
BranchState(w, f) ==
    [mem |-> w.mem[Underlying(f)],
     wc |-> IF Kind(f) = "whiteout" THEN w.wc[f] ELSE {}]

\* The rank-ordered position of the first branch whose stat(p) is not a
\* plain ENOENT; 0 when every branch reports ENOENT.
FirstAnswer(p) ==
    LET hits == {i \in DOMAIN sorted_branches :
                    FsCall(World, sorted_branches[i].fs, Call("stat", p)).res.err
                        # "ENOENT"}
    IN IF hits = {} THEN 0 ELSE Min(hits)

\* C1: stat, lstat, readlink and the read-only open of p through U are
\* served by the first branch in ascending rank whose stat(p) succeeds when
\* the branches before it report ENOENT; they fail with the error of the
\* first branch that reports a whiteout, EACCES or ENOTDIR, and with ENOENT
\* when every branch reports ENOENT; and a read-only open of a file followed
\* by read() returns the bytes the serving branch holds for p.
C1_ReadBranchAndContent ==
    \A p \in UPaths :
        LET k == FirstAnswer(p)
            fs == sorted_branches[k].fs
            st == FsCall(World, fs, Call("stat", p)).res
            opened == FsCall(World, fs, OpenCall(p, MODE_RB)).res
            read == ReadFile(World, "U", p).res
        IN /\ \A c \in {Call("stat", p), Call("lstat", p), Call("readlink", p),
                        OpenCall(p, MODE_RB)} :
                 LET r == FsCall(World, "U", c).res
                     b == FsCall(World, fs, c).res
                 IN IF k = 0 THEN r.err = "ENOENT"
                    ELSE IF ~IsOk(st) THEN r.err = st.err
                    ELSE r.err = b.err /\ (IsOk(b) => r.val = b.val)
           /\ (k # 0 /\ IsOk(st) /\ IsOk(opened)) =>
                 /\ IsOk(read)
                 /\ read.val = mem[opened.val.mem][opened.val.path].data

\* The writable branch of the lowest rank.
LowestWritable ==
    CHOOSE b \in Values(branches) :
        b.writable /\ \A o \in Values(branches) : o.writable => b.rank <= o.rank

\* What a successful write call c through U leaves to see through the
\* filesystem B alone, in the world w the call returned with result res.
SeenThrough(w, B, c, res) ==
    CASE c.op = "open" ->
            /\ res.val.mem = Underlying(B)
            /\ \A i \in DOMAIN iter_path(c.path) :
                  FsAccess(w, B, iter_path(c.path)[i]) = Ok(TRUE)
      [] c.op = "chmod" ->
            LET st == FsCall(w, B, Call("stat", c.path)).res
            IN IsOk(st) /\ st.val.st_mode = c.mode
      [] c.op = "chown" ->
            LET st == FsCall(w, B, Call("stat", c.path)).res
            IN IsOk(st) /\ st.val.st_uid = c.uid /\ st.val.st_gid = c.gid
      [] c.op = "mkdir" -> FsIsdir(w, B, c.path) = Ok(TRUE)
      [] c.op = "symlink" -> IsOk(FsCall(w, B, Call("lstat", c.path)).res)
      [] c.op \in {"unlink", "rmdir"} -> FsAccess(w, B, c.path) = Ok(FALSE)

C7_ListdirMerges ==
    \A d \in UPaths :
        LET present(i) == FsIsdir(World, sorted_branches[i].fs, d) = Ok(TRUE)
            names(i) == FsCall(World, sorted_branches[i].fs, Call("listdir", d)).res.val
            deleted(i, n) ==
                FsCall(World, sorted_branches[i].fs, Call("stat", join(d, n))).res.err
                    = "DELETED"
            first(i, n) ==
                /\ present(i)
                /\ n \in names(i)
                /\ \A j \in 1..(i - 1) : present(j) => n \notin names(j)
            expected ==
                {n \in {"a", "f"} :
                    \E i \in DOMAIN sorted_branches :
                        first(i, n) /\ \A j \in 1..(i - 1) : ~deleted(j, n)}
            r == FsCall(World, "U", Call("listdir", d)).res
        IN (\E i \in DOMAIN sorted_branches : present(i)) =>
              IsOk(r) /\ r.val = expected

\* C8: for F a MemoryFS, a WhiteoutFS or the UnionFS U, whatever the ranks
\* and the writability of the branches of U, once F.unlink(p) has succeeded
\* F.access(p, F_OK) is false.
C8_UnlinkThenNoAccess ==
    \A F \in {"mA", "mB", "wA", "wB", "U"}, p \in UPaths :
        LET r == FsCall(World, F, Call("unlink", p))
        IN IsOk(r.res) => FsAccess(r.w, F, p) = Ok(FALSE)

-----------------------------------------------------------------------------
(* Properties of the MountFS M (SpecM).                                    *)

\* The paths the calls of the properties are made on.
MCallPaths == {<<"a">>, <<"b">>, <<"a", "x">>, <<"b", "x">>}
MTargets == {ROOT, <<"b">>, <<"a", "x">>}

\* The longest mount point that is p or an ancestor of p.
LongestMount(p) ==
    CHOOSE a \in DOMAIN filesystems :
        /\ is_parent(a, p)
        /\ \A o \in DOMAIN filesystems : is_parent(o, p) => Len(o) <= Len(a)

\* p relative to the mount point a above it, from the root of the
\* sub-filesystem.
Below(a, p) == SubSeq(p, Len(a) + 1, Len(p))

\* Two outcomes of a call are the same: the same world and the same result.
SameOutcome(r1, r2) ==
    /\ r1.w = r2.w
    /\ r1.res.err = r2.res.err
    /\ IsOk(r1.res) => r1.res.val = r2.res.val

\* The call c made on the sub-filesystem mounted above c.path, with the
\* path rewritten.
Forwarded(c) ==
    FsCall(World, filesystems[LongestMount(c.path)],
           [c EXCEPT !.path = Below(LongestMount(c.path), c.path)])

\* The calls of the interface on the path p, with every symlink target.
AllCalls(p) ==
    ReadCalls({p}) \cup WriteCalls({p}, {p})
    \cup {[Call("symlink", p) EXCEPT !.target = t] : t \in MTargets}

\* C9 as stated: for a path p under a mount point and not a mount point
\* itself, every operation on p through M has the outcome of the same
\* operation on the sub-filesystem mounted at the longest mount point above
\* p, made on p relative to that mount point.
C9_EveryOperationForwarded ==
    \A p \in MCallPaths :
        (DOMAIN filesystems # {} /\ p \notin DOMAIN filesystems) =>
            \A c \in AllCalls(p) : SameOutcome(FsCall(World, "M", c), Forwarded(c))

\* C9: for a path p under a mount point and not a mount point itself, an
\* operation on p through M has the outcome of the same operation on the
\* sub-filesystem mounted at the longest mount point above p, made on p
\* relative to that mount point, but for two operations: rmdir of an
\* ancestor of a mount point fails EBUSY and calls nothing, and symlink
\* fails with FSError and calls nothing when the target is served by another
\* sub-filesystem, and is forwarded with the target rewritten too when it is
\* served by the same one.
C9_Dispatch ==
    \A p \in MCallPaths :
        (DOMAIN filesystems # {} /\ p \notin DOMAIN filesystems) =>
            \A c \in AllCalls(p) :
                LET r == FsCall(World, "M", c)
                    S == filesystems[LongestMount(p)]
                IN IF c.op = "rmdir" /\ \E a \in DOMAIN filesystems : is_parent(p, a)
                   THEN r = Ret(World, Err("EBUSY"))
                   ELSE IF c.op = "symlink"
                   THEN IF filesystems[LongestMount(c.target)] # S
                        THEN r = Ret(World, Err("FSError"))
                        ELSE SameOutcome(r,
                                 FsCall(World, S,
                                     [c EXCEPT
                                         !.path = Below(LongestMount(p), p),
                                         !.target = relpath(c.target,
                                                        LongestMount(c.target))]))
                   ELSE SameOutcome(r, Forwarded(c))

\* C9 witness: a write-mode open of /a/x through M and the write of its
\* stream succeeded while mB was mounted at /a over a directory /a/x of the
\* root filesystem mA: the bytes are at /x in mB.
C9_Witness ==
    /\ LastWas("M", {"open"})
    /\ last.call.path = <<"a", "x">>
    /\ <<"a">> \in DOMAIN filesystems
    /\ filesystems[<<"a">>] = "mB"
    /\ <<"a", "x">> \notin DOMAIN filesystems
    /\ Has(mem["mA"], <<"a", "x">>)
    /\ mem["mA"][<<"a", "x">>].kind = "dir"
    /\ Has(mem["mB"], <<"x">>)
    /\ mem["mB"][<<"x">>].data = <<1>>

\* C10: if the mount table is not empty then the root is mounted; no two
\* entries of the dispatch list share a mount point; the dispatch list holds
\* exactly the entries of the mount table; and in it a longer mount point
\* precedes a shorter one.
C10_MountTable ==
    /\ DOMAIN filesystems # {} => ROOT \in DOMAIN filesystems
    /\ \A i, j \in DOMAIN sorted_filesystems :
          i # j => sorted_filesystems[i][1] # sorted_filesystems[j][1]
    /\ {sorted_filesystems[i] : i \in DOMAIN sorted_filesystems}
          = {<<a, filesystems[a]>> : a \in DOMAIN filesystems}
    /\ \A i, j \in DOMAIN sorted_filesystems :
          strlen(sorted_filesystems[i][1]) > strlen(sorted_filesystems[j][1])
              => i < j

\* C10 witness: an umount_fs succeeded and left three mounts, one of them
\* below another that is not the root.
C10_Witness ==
    /\ LastWas("M", {"umount_fs"})
    /\ Len(sorted_filesystems) = 3
    /\ {<<"a">>, <<"a", "x">>} \subseteq DOMAIN filesystems

-----------------------------------------------------------------------------
(* MountFS.umount_fs and MountFS.mount_fs (SpecM).                         *)

\* Some mount point other than m lies below m.
MountBelow(m) == \E a \in DOMAIN filesystems : a # m /\ is_parent(m, a)

\* The mount table without the mount at m.
WithoutMount(m) == [q \in (DOMAIN filesystems) \ {m} |-> filesystems[q]]

\* C11 as stated: umount_fs(m) fails EINVAL when m is not a mount point,
\* EINVAL when m is the root, EBUSY when another mount point lies below m,
\* and succeeds otherwise.
C11_UmountErrnoPerCase ==
    \A m \in MPaths :
        /\ m \notin DOMAIN filesystems => umount_fs_error(m) = "EINVAL"
        /\ m = ROOT => umount_fs_error(m) = "EINVAL"
        /\ MountBelow(m) => umount_fs_error(m) = "EBUSY"
        /\ (m \in DOMAIN filesystems /\ m # ROOT /\ ~MountBelow(m))
              => umount_fs_error(m) = ""

\* C11: umount_fs(m) fails EINVAL when m is not a mount point; otherwise it
\* fails EBUSY when another mount point lies below m; otherwise it fails
\* EINVAL when m is the root; a failing call leaves the mount table and the
\* dispatch list as they were.  Otherwise it succeeds and the mount table
\* is the one before without the mount at m.
C11_Umount ==
    /\ [](\A m \in MPaths :
            umount_fs_error(m) =
                IF m \notin DOMAIN filesystems THEN "EINVAL"
                ELSE IF MountBelow(m) THEN "EBUSY"
                ELSE IF m = ROOT THEN "EINVAL"
                ELSE "")
    /\ [][\A m \in MPaths :
            umount_fs(m) =>
                IF m \notin DOMAIN filesystems \/ MountBelow(m) \/ m = ROOT
                THEN UNCHANGED <<filesystems, sorted_filesystems>>
                ELSE filesystems' = WithoutMount(m)]_vars

\* C11 witness: umount_fs of /a/x succeeded and left the root and /a
\* mounted, so that unmounting the root is busy and unmounting /a/x again
\* is invalid.
C11_Witness ==
    /\ LastWas("M", {"umount_fs"})
    /\ last.call.path = <<"a", "x">>
    /\ DOMAIN filesystems = {ROOT, <<"a">>}
    /\ MountBelow(ROOT)

\* p is an existing directory in the view of M.
IsDirInView(p) ==
    LET s == FsCall(World, "M", Call("stat", p)).res
    IN IsOk(s) /\ S_ISDIR(s.val.st_mode)

\* C12: mount_fs(S, m) succeeds only if the mount table is empty and m is
\* the root, or the mount table is not empty, m is not a mount point and m
\* is an existing directory in the view of M; a mount_fs that fails leaves
\* the mount table and the dispatch list as they were, and one that
\* succeeds adds the mount of S at m to the table.
C12_Mount ==
    /\ [](\A i \in MountInputs :
            mount_fs_error(i[1], i[2]) = "" =>
                \/ DOMAIN filesystems = {} /\ i[2] = ROOT
                \/ /\ DOMAIN filesystems # {}
                   /\ i[2] \notin DOMAIN filesystems
                   /\ IsDirInView(i[2]))
    /\ [][\A i \in MountInputs :
            mount_fs(i[1], i[2]) =>
                IF \/ DOMAIN filesystems = {} /\ i[2] = ROOT
                   \/ /\ DOMAIN filesystems # {}
                      /\ i[2] \notin DOMAIN filesystems
                      /\ IsDirInView(i[2])
                THEN filesystems' = (i[2] :> i[1]) @@ filesystems
                ELSE UNCHANGED <<filesystems, sorted_filesystems>>]_vars

\* C12 witness: mount_fs of mB at /a succeeded on a directory of the root
\* filesystem, while /b, which does not exist, cannot be mounted.
C12_Witness ==
    /\ LastWas("M", {"mount_fs"})
    /\ last.call.path = <<"a">>
    /\ filesystems[<<"a">>] = "mB"
    /\ Has(mem["mA"], <<"a">>)
    /\ ~Has(mem["mA"], <<"b">>)
    /\ mount_fs_error("mB", <<"b">>) # ""

-----------------------------------------------------------------------------
(* SpecR: the ReadOnlyFS rB over the MemoryFS mB.  The MemoryFS is changed *)
(* through its own interface, and every call is also made through rB.      *)

RPaths == {<<"a">>, <<"a", "f">>}
RAttrPaths == {<<"a">>, <<"a", "f">>}
RCalls == ReadCalls(RPaths) \cup WriteCalls(RPaths, RAttrPaths) \cup OpenWCalls(RPaths)

InitR == InitW

\* A call on the wrapped MemoryFS itself.
RInner ==
    /\ \/ \E c \in WriteCalls(RPaths, RAttrPaths) : DoCall("mB", c)
       \/ \E p \in RPaths : DoWrite("mB", p, <<1>>)
    /\ UNCHANGED <<UnionVars, MountVars>>

\* A call through rB; it is the last call whatever its outcome.
RCall ==
    /\ \E c \in RCalls :
          /\ mem' = FsCall(World, "rB", c).w.mem
          /\ wc' = FsCall(World, "rB", c).w.wc
          /\ last' = [fs |-> "rB", call |-> c, err |-> FsCall(World, "rB", c).res.err]
    /\ UNCHANGED <<UnionVars, MountVars>>

\* A read-only open through rB followed by the read.
RRead ==
    /\ \E p \in RPaths : DoRead("rB", p)
    /\ UNCHANGED <<UnionVars, MountVars>>

NextR == RInner \/ RCall \/ RRead

SpecR == InitR /\ [][NextR]_vars

-----------------------------------------------------------------------------
(* Properties of the ReadOnlyFS rB over mB (SpecR).                        *)

\* Same world, same result or error.
SameReturn(r1, r2) ==
    /\ r1.w = r2.w
    /\ r1.res.err = r2.res.err
    /\ IsOk(r1.res) => r1.res.val = r2.res.val

\* C13 as stated: every writing call through rB fails EROFS and leaves the
\* world as it was, and every reading call (access with any mask included)
\* returns what the same call on mB returns.
C13_ReadsForwardedUnchanged ==
    \A c \in RCalls :
        LET r == FsCall(World, "rB", c)
        IN IF IsWriteCall(c)
           THEN r = Ret(World, Err("EROFS"))
           ELSE /\ SameReturn(r, FsCall(World, "mB", c))
                /\ c.op = "open" =>
                      SameReturn(StreamRead(r), ReadFile(World, "mB", c.path))

\* C13: every chmod, chown, mkdir, symlink, rmdir, unlink and write-mode
\* open through rB fails EROFS and leaves the world, mB included, as it
\* was; access with a mask that holds W_OK is false; every other access,
\* and stat, lstat, listdir, readlink and the read-only open and its read,
\* return what the same call on mB returns.
C13_ReadOnly ==
    \A c \in RCalls :
        LET r == FsCall(World, "rB", c)
        IN IF IsWriteCall(c)
           THEN r = Ret(World, Err("EROFS"))
           ELSE IF c.op = "access" /\ BitAnd(c.mode, W_OK) # 0
           THEN r = Ret(World, Ok(FALSE))
           ELSE /\ SameReturn(r, FsCall(World, "mB", c))
                /\ c.op = "open" =>
                      SameReturn(StreamRead(r), ReadFile(World, "mB", c.path))

\* C13 witness: an unlink through rB failed EROFS on a file that mB holds
\* with bytes in it and that its owner may write.
C13_Witness ==
    /\ last.fs = "rB"
    /\ last.call.op = "unlink"
    /\ last.err = "EROFS"
    /\ Has(mem["mB"], last.call.path)
    /\ mem["mB"][last.call.path].kind = "file"
    /\ mem["mB"][last.call.path].data = <<1>>
    /\ FsCall(World, "mB", [Call("access", last.call.path) EXCEPT !.mode = W_OK]).res
          = Ok(TRUE)

-----------------------------------------------------------------------------
(* UnionFS as a read-only layer, and its branch management (SpecU).        *)

\* The writing calls made through U on the paths of SpecU.
UWriteCalls == WriteCalls(UWritePaths, UAttrPaths) \cup OpenWCalls(UWritePaths)

\* C14: U advertises READONLY exactly when it has no writable branch, and
\* then every write-mode open, chmod, chown, mkdir, symlink, rmdir and
\* unlink through U fails EROFS and leaves every branch as it was.
C14_ReadOnlyUnion ==
    /\ has_feature("U", FEATURE_READONLY) <=>
          ~\E i \in DOMAIN sorted_branches : sorted_branches[i].writable
    /\ has_feature("U", FEATURE_READONLY) =>
          \A c \in UWriteCalls : FsCall(World, "U", c) = Ret(World, Err("EROFS"))

\* The cases in which add_branch of b must be refused: the reference is in
\* use, the rank is the rank of a branch, or the branch is to be writable
\* and its filesystem advertises READONLY or does not advertise WHITEOUT.
MustRefuse(b) ==
    \/ b.ref \in DOMAIN branches
    \/ \E k \in DOMAIN branches : branches[k].rank = b.rank
    \/ b.writable /\ has_feature(b.fs, FEATURE_READONLY)
    \/ b.writable /\ ~has_feature(b.fs, FEATURE_WHITEOUT)

\* C15: add_branch raises ValueError, which is no OSError, when the
\* reference is in use, when the rank is the rank of a branch, or when the
\* branch is to be writable and its filesystem advertises READONLY or does
\* not advertise WHITEOUT; such a call, and remove_branch of a reference
\* that is not in use, leave the branch mapping and both branch lists as
\* they were.
C15_AddBranchValidation ==
    /\ [](\A b \in BranchInputs :
            MustRefuse(b) =>
                /\ add_branch_error(b.fs, b.ref, b.rank, b.writable) = "ValueError"
                /\ ~IsOSError("ValueError"))
    /\ [][/\ \A b \in BranchInputs :
                (MustRefuse(b) /\ add_branch(b.fs, b.ref, b.rank, b.writable))
                    => UNCHANGED UnionVars
          /\ \A ref \in BranchRefs :
                (ref \notin DOMAIN branches /\ remove_branch(ref))
                    => UNCHANGED UnionVars]_vars

\* C15 witness: branch A, writable at rank 1, is the only branch of U, no
\* call went through U yet and mB holds a file, so that adding mB at rank
\* 1, adding the MemoryFS mB as writable and adding the ReadOnlyFS rB as
\* writable are refused, and removing B is refused too.
C15_Witness ==
    /\ DOMAIN branches = {"A"}
    /\ branches["A"].rank = 1
    /\ last.fs # "U"
    /\ Has(mem["mB"], <<"a", "f">>)
    /\ remove_branch_error("B") # ""
    /\ MustRefuse([fs |-> "mB", ref |-> "B", rank |-> 1, writable |-> FALSE])
    /\ MustRefuse([fs |-> "rB", ref |-> "B", rank |-> 0, writable |-> TRUE])
    /\ MustRefuse([fs |-> "mB", ref |-> "B", rank |-> 0, writable |-> TRUE])
    /\ ~MustRefuse([fs |-> "mB", ref |-> "B", rank |-> 0, writable |-> FALSE])

\* C16: the ranks of the branches are pairwise distinct; the filesystem of
\* every writable branch advertises WHITEOUT and not READONLY; the sorted
\* branch list holds exactly the branches of the mapping, in strictly
\* ascending rank; and the write-branch list is the writable branches of
\* the sorted list, in its order.
C16_BranchTable ==
    /\ \A k1, k2 \in DOMAIN branches :
          k1 # k2 => branches[k1].rank # branches[k2].rank
    /\ \A k \in DOMAIN branches :
          branches[k].writable =>
              /\ has_feature(branches[k].fs, FEATURE_WHITEOUT)
              /\ ~has_feature(branches[k].fs, FEATURE_READONLY)
    /\ Len(sorted_branches) = Cardinality(DOMAIN branches)
    /\ {sorted_branches[i] : i \in DOMAIN sorted_branches}
          = {branches[k] : k \in DOMAIN branches}
    /\ \A i, j \in DOMAIN sorted_branches :
          i < j => sorted_branches[i].rank < sorted_branches[j].rank
    /\ write_branches = SelectSeq(sorted_branches, LAMBDA b : b.writable)

\* C16 witness: U holds the branch B over mB, not writable, at rank 0 and
\* the writable branch A at rank 1: B sorts first and only A is a write
\* branch.
C16_Witness ==
    /\ Len(sorted_branches) = 2
    /\ sorted_branches[1].fs = "mB"
    /\ sorted_branches[1].rank = 0
    /\ sorted_branches[2].fs = "wA"
    /\ Len(write_branches) = 1
    /\ write_branches[1].fs = "wA"
    /\ last.fs # "U"

-----------------------------------------------------------------------------
(* UnionFS write preconditions (SpecU).                                    *)

\* p is in the view of U.
InUnion(p) == FsAccess(World, "U", p) = Ok(TRUE)

\* The parent of p is in the view of U and is not a directory there.
ParentNotDir(p) ==
    /\ InUnion(dirname(p))
    /\ FsIsdir(World, "U", dirname(p)) = Ok(FALSE)

\* The parent of p is a directory in the view of U.
ParentIsDir(p) == FsIsdir(World, "U", dirname(p)) = Ok(TRUE)

\* C17: with a writable branch, every write (rmdir included) whose parent
\* is in the view of U and is no directory fails ENOTDIR; otherwise, below
\* a directory, chmod, chown and unlink of a path that is not in the view
\* fail ENOENT, mkdir and symlink of a path that is in the view fail
\* EEXIST, and a write-mode open fails neither ENOENT nor EEXIST; each of
\* these failures leaves the world, the writable branch included, as it
\* was.
C17_WritePreconditions ==
    write_branches # << >> =>
        \A c \in UWriteCalls :
            LET r == FsCall(World, "U", c)
            IN IF ParentNotDir(c.path) THEN r = Ret(World, Err("ENOTDIR"))
               ELSE IF ~ParentIsDir(c.path) THEN TRUE
               ELSE IF c.op \in {"chmod", "chown", "unlink"} /\ ~InUnion(c.path)
               THEN r = Ret(World, Err("ENOENT"))
               ELSE IF c.op \in {"mkdir", "symlink"} /\ InUnion(c.path)
               THEN r = Ret(World, Err("EEXIST"))
               ELSE c.op = "open" => r.res.err \notin {"ENOENT", "EEXIST"}

-----------------------------------------------------------------------------
(* SpecL: the layers stacked.  The MountFS M has the UnionFS U mounted at  *)
(* the root; U has the branch A (the WhiteoutFS wA over mA, writable) and  *)
(* may have the branch B over mB, below or above A.  The MemoryFS          *)
(* instances are filled through their own interface and the stack is       *)
(* built before the first call through M; afterwards every call goes       *)
(* through M.                                                              *)

LPaths == {ROOT, <<"a">>, <<"a", "f">>}
LWritePaths == LPaths \ {ROOT}
LAttrPaths == {<<"a">>}
LBranchInputs ==
    {[fs |-> "wA", ref |-> "A", rank |-> 1, writable |-> TRUE]}
    \cup {[fs |-> "mB", ref |-> "B", rank |-> r, writable |-> FALSE] : r \in {0, 2}}
    \cup {[fs |-> "rB", ref |-> "B", rank |-> 2, writable |-> FALSE]}
Layers == {"mA", "mB", "wA", "wB", "rB", "U", "M"}

InitL == InitW

LSetup ==
    /\ last.fs # "M"
    /\ filesystems = << >>
    /\ \/ \E m \in MemIds : DoCall(m, Call("mkdir", <<"a">>))
       \/ DoWrite("mB", <<"a", "f">>, <<1>>)
    /\ UNCHANGED <<UnionVars, MountVars>>

LAddBranch ==
    /\ filesystems = << >>
    /\ \E b \in LBranchInputs : add_branch(b.fs, b.ref, b.rank, b.writable)
    /\ UNCHANGED <<mem, wc, last, MountVars>>

LMount ==
    /\ mount_fs("U", ROOT)
    /\ UNCHANGED <<mem, wc, last, UnionVars>>

LCall ==
    /\ ROOT \in DOMAIN filesystems
    /\ \E c \in WriteCalls(LWritePaths, LAttrPaths) : DoCall("M", c)
    /\ UNCHANGED <<UnionVars, MountVars>>

LWrite ==
    /\ ROOT \in DOMAIN filesystems
    /\ \E p \in LWritePaths : DoWrite("M", p, <<2>>)
    /\ UNCHANGED <<UnionVars, MountVars>>

LRead ==
    /\ ROOT \in DOMAIN filesystems
    /\ \E p \in LWritePaths : DoRead("M", p)
    /\ UNCHANGED <<UnionVars, MountVars>>

NextL == LSetup \/ LAddBranch \/ LMount \/ LCall \/ LWrite \/ LRead

SpecL == InitL /\ [][NextL]_vars

-----------------------------------------------------------------------------
(* Properties of every layer (SpecL).                                      *)

\* The layers that answer calls: M does once the root is mounted.
Answering == {f \in Layers : f = "M" => ROOT \in DOMAIN filesystems}

\* C18: for every layer F and every path p, F.access(p, F_OK) is true if
\* and only if F.stat(p) succeeds or fails with an errno other than ENOENT,
\* ENOTDIR and EACCES.
C18_AccessIffStat ==
    \A f \in Answering, p \in LPaths :
        LET s == FsCall(World, f, Call("stat", p)).res
        IN FsAccess(World, f, p)
              = Ok(IsOk(s) \/ Errno(s.err) \notin {"ENOENT", "ENOTDIR", "EACCES"})

\* C18 witness: an unlink through M succeeded on a file that mA still
\* holds: the path is whited out in wA, stat of it through M fails with
\* DeletedObjectError and access through M is false, while stat and access
\* on mA succeed.
C18_Witness ==
    /\ LastWas("M", {"unlink"})
    /\ last.call.path \in wc["wA"]
    /\ Has(mem["mA"], last.call.path)
    /\ FsCall(World, "M", Call("stat", last.call.path)).res.err = "DELETED"
    /\ FsAccess(World, "M", last.call.path) = Ok(FALSE)
    /\ FsAccess(World, "mA", last.call.path) = Ok(TRUE)

\* C19: for every layer F and every path p, after F.mkdir(p) succeeds p is
\* a directory in the view of F and F.listdir(p) is empty.
C19_MkdirGivesEmptyDir ==
    \A f \in Answering, p \in LWritePaths :
        LET r == FsCall(World, f, Call("mkdir", p))
        IN IsOk(r.res) =>
              /\ FsIsdir(r.w, f, p) = Ok(TRUE)
              /\ FsCall(r.w, f, Call("listdir", p)).res = Ok({})

\* The layers C20 names: MemoryFS, WhiteoutFS, a UnionFS that has a
\* writable branch, and MountFS.
UnlinkLayers ==
    {f \in Answering \ {"rB"} : f = "U" => write_branches # <<>>}

\* C20: on every layer F, F.unlink(p) on a path p that is a directory in the
\* view of F fails with EISDIR, and afterwards p is still a directory in the
\* view of F with the same children.
C20_UnlinkDirectoryRefused ==
    \A f \in UnlinkLayers, p \in LWritePaths :
        FsIsdir(World, f, p) = Ok(TRUE) =>
            LET r == FsCall(World, f, Call("unlink", p))
            IN /\ ~IsOk(r.res)
               /\ Errno(r.res.err) = "EISDIR"
               /\ FsIsdir(r.w, f, p) = Ok(TRUE)
               /\ FsCall(r.w, f, Call("listdir", p)).res
                     = FsCall(World, f, Call("listdir", p)).res

-----------------------------------------------------------------------------
(* WhiteoutFS.unlink on a missing path (SpecW).                            *)

\* Every proper ancestor of p is a directory of mA, and neither p nor an
\* ancestor of p is whited out in wA.
CleanWayTo(p) ==
    /\ \A i \in 1..Len(p) : FsIsdir(World, "mA", iter_path(p)[i]) = Ok(TRUE)
    /\ \A i \in 1..(Len(p) + 1) : iter_path(p)[i] \notin wc["wA"]

\* C21: when p does not exist in the inner filesystem, all its ancestors
\* being directories and nothing being whited out on the way, wA.unlink(p)
\* fails with ENOENT and the whiteout cache is unchanged.
C21_UnlinkMissingPath ==
    \A p \in WPaths \ {ROOT} :
        (CleanWayTo(p) /\ ~Has(mem["mA"], p)) =>
            LET r == FsCall(World, "wA", Call("unlink", p))
            IN /\ ~IsOk(r.res)
               /\ Errno(r.res.err) = "ENOENT"
               /\ r.w.wc = wc

-----------------------------------------------------------------------------
(* Files of a MemoryFS: round trip and size (SpecW).                       *)

\* C22: on mA and on wA stacked over it, for every path p whose parent
\* directory exists and every byte string b, after open(p, 'wb').write(b)
\* succeeds, open(p, 'rb').read() returns exactly b.
C22_WriteReadRoundTrip ==
    \A f \in {"mA", "wA"}, p \in WPaths \ {ROOT}, b \in WBytes :
        FsIsdir(World, f, dirname(p)) = Ok(TRUE) =>
            LET r == WriteFile(World, f, p, b)
            IN IsOk(r.res) => ReadFile(r.w, f, p).res = Ok(b)

\* C23: on mA, after a write to a regular file p, stat(p).st_size is the
\* number of bytes in the file's buffer, and p is listed in its parent.
C23_StatSizeIsBufferLength ==
    \A p \in WPaths \ {ROOT}, b \in WBytes :
        LET r == WriteFile(World, "mA", p, b)
            s == FsCall(r.w, "mA", Call("stat", p)).res
        IN IsOk(r.res) =>
              /\ IsOk(s)
              /\ s.val.st_size = Len(r.w.mem["mA"][p].data)
              /\ basename(p) \in FsCall(r.w, "mA", Call("listdir", dirname(p))).res.val

\* C24: on every layer F, for a link name whose parent directory exists in
\* the view of F and which does not exist yet, F.symlink(link, tgt)
\* succeeds; readlink(link) then returns tgt and lstat(link) reports a
\* symlink.
C24_SymlinkRoundTrip ==
    \A f \in UnlinkLayers, link \in LWritePaths :
        (/\ FsIsdir(World, f, dirname(link)) = Ok(TRUE)
         /\ FsAccess(World, f, link) = Ok(FALSE)) =>
            LET r == FsCall(World, f, [Call("symlink", link) EXCEPT !.target = ROOT])
                l == FsCall(r.w, f, Call("lstat", link)).res
            IN /\ IsOk(r.res)
               /\ FsCall(r.w, f, Call("readlink", link)).res = Ok(ROOT)
               /\ IsOk(l) /\ S_ISLNK(l.val.st_mode)

-----------------------------------------------------------------------------
(* The MemoryFS index (SpecW).                                             *)

\* Every indexed path other than the root is a child of an indexed
\* directory, and every child of an indexed directory is indexed: the index
\* holds exactly the paths reachable from the root.
IndexIsTree(ix) ==
    /\ \A p \in DOMAIN ix :
          p # ROOT =>
              /\ Has(ix, dirname(p))
              /\ ix[dirname(p)].kind = "dir"
              /\ basename(p) \in ix[dirname(p)].contents
    /\ \A d \in DOMAIN ix : \A n \in ix[d].contents : Has(ix, join(d, n))

\* C25: after any sequence of calls on a MemoryFS, its path index contains
\* exactly the paths reachable from the root by walking directory children,
\* and the parent of every non-root indexed path is an indexed directory.
C25_MemoryIndexInvariant == \A m \in MemIds : IndexIsTree(mem[m])

\* C26: mA.mkdir(p) on a path p that already exists fails with EEXIST and
\* leaves the index unchanged.
C26_MkdirExisting ==
    \A p \in WPaths \ {ROOT} :
        Has(mem["mA"], p) =>
            LET r == FsCall(World, "mA", Call("mkdir", p))
            IN r.res = Err("EEXIST") /\ r.w = World

-----------------------------------------------------------------------------
(* The MemoryFS permission check (SpecW).                                  *)

\* The permission class of the caller on obj, as the factor that moves a
\* permission bit of the mask to the class's bits of the mode: owner, else
\* group, else other.
ClassOf(obj) ==
    IF CallerUid = obj.uid THEN 64 ELSE IF CallerGid = obj.gid THEN 8 ELSE 1

\* Every permission of the mask is granted by the caller's class on obj.
GrantedByClass(obj, mask) ==
    \A bit \in {R_OK, W_OK, X_OK} :
        BitAnd(mask, bit) # 0 => BitAnd(obj.mode, bit * ClassOf(obj)) # 0

AccessMasks == 1..7

\* C27: for an existing node of mA and a mask of R, W, X, access is true if
\* and only if every requested permission is granted by the single
\* applicable permission class; access with F_OK is true for every existing
\* node.
C27_PermissionCheck ==
    \A p \in DOMAIN mem["mA"] :
        /\ FsAccess(World, "mA", p) = Ok(TRUE)
        /\ \A mask \in AccessMasks :
              FsCall(World, "mA", [Call("access", p) EXCEPT !.mode = mask]).res
                  = Ok(GrantedByClass(mem["mA"][p], mask))

-----------------------------------------------------------------------------
(* Absolute paths with '.' and '..' segments (SpecW).                      *)

\* Paths with '.' and '..' segments: /a/./x, /a/x/.., /./a and /a/.
DottedPaths ==
    {<<"a", ".", "x">>, <<"a", "x", "..">>, <<".", "a">>, <<"a", ".">>}

DottedCalls == ReadCalls(DottedPaths) \cup WriteCalls(DottedPaths, DottedPaths)

\* C29: on mA and on wA, for every operation and every absolute path p with
\* '.' or '..' segments, the call on p has the same result and the same
\* effect as the call on the collapsed form of p.
C29_PathsNormalizedOnEntry ==
    \A f \in {"mA", "wA"}, c \in DottedCalls :
        LET r == FsCall(World, f, c)
            n == FsCall(World, f, [c EXCEPT !.path = os_normpath(c.path)])
        IN r.w = n.w /\ (c.op # "open" => r.res = n.res)
                     /\ (c.op = "open" => IsOk(r.res) = IsOk(n.res))

-----------------------------------------------------------------------------
(* SpecC: the ChrootFS cR (the root mapped to /a) and cE (/e mapped to     *)
(* /a) over the MemoryFS mA, which is also written directly.               *)

CInnerPaths == {<<"a">>, <<"f">>, <<"a", "f">>}
CPaths == {ROOT, <<"a">>, <<"f">>, <<"e">>, <<"e", "f">>}
CWritePaths == {<<"f">>, <<"e", "f">>}
CAttrPaths == {<<"e", "f">>}
Chroots == {"cR", "cE"}

InitC == InitW

CInner ==
    /\ last.fs \in {"", "mA"}
    /\ \/ \E p \in CInnerPaths : DoCall("mA", Call("mkdir", p))
       \/ \E p \in CInnerPaths : DoWrite("mA", p, <<1>>)
    /\ UNCHANGED <<UnionVars, MountVars>>

CCall ==
    /\ \E f \in Chroots :
          \E c \in ReadCalls(CPaths) \cup WriteCalls(CWritePaths, CAttrPaths) : DoCall(f, c)
    /\ UNCHANGED <<UnionVars, MountVars>>

CWrite ==
    /\ \E f \in Chroots, p \in CWritePaths : DoWrite(f, p, <<1>>)
    /\ UNCHANGED <<UnionVars, MountVars>>

CRead ==
    /\ \E f \in Chroots, p \in CPaths : DoRead(f, p)
    /\ UNCHANGED <<UnionVars, MountVars>>

NextC == CInner \/ CCall \/ CWrite \/ CRead

SpecC == InitC /\ [][NextC]_vars

-----------------------------------------------------------------------------
(* access on every layer, and the path mapping of ChrootFS (SpecC).        *)

\* C28: on every layer and for every path, access(path, mask) returns a
\* boolean and never raises an error whose errno is ENOENT, ENOTDIR or
\* EACCES.
C28_AccessNeverRaises ==
    \A f \in {"mA", "wA", "rB"} \cup Chroots, p \in CPaths, mask \in {F_OK, R_OK, W_OK} :
        LET r == FsCall(World, f, [Call("access", p) EXCEPT !.mode = mask]).res
        IN /\ IsOk(r) => r.val \in BOOLEAN
           /\ ~IsOk(r) => Errno(r.err) \notin {"ENOENT", "ENOTDIR", "EACCES"}

\* The calls C30 tries on a path.
ChrootCalls(p) ==
    {c \in ReadCalls({p}) \cup WriteCalls({p}, {p}) \cup OpenWCalls({p}) :
        c.op # "symlink"}

\* C30: for a ChrootFS with external root E and internal root I and an
\* absolute path p: if p is not under E every operation fails with EACCES
\* and changes nothing; otherwise the wrapped filesystem receives I joined
\* with the part of p relative to E, and mapping that path back out yields p.
C30_ChrootPathMapping ==
    \A f \in Chroots, p \in CPaths :
        IF ~is_parent(external_root(f), p)
        THEN \A c \in ChrootCalls(p) : FsCall(World, f, c) = Ret(World, Err("EACCES"))
        ELSE /\ convert_path_in(f, p)
                  = Ok(internal_root(f) \o Below(external_root(f), p))
             /\ IsOk(convert_path_in(f, p)) =>
                   /\ is_parent(internal_root(f), convert_path_in(f, p).val)
                   /\ convert_path_out(f, convert_path_in(f, p).val) = Ok(p)
             /\ \A c \in ChrootCalls(p) :
                   c.op \notin {"listdir", "open"} =>
                       FsCall(World, f, c)
                           = FsCall(World, "mA",
                                    [c EXCEPT !.path = internal_root(f)
                                                         \o Below(external_root(f), p)])

-----------------------------------------------------------------------------
(* UnionFS copy-up (SpecU).                                                *)

\* The proper ancestors of p, the root included.
Ancestors(p) == {iter_path(dirname(p))[i] : i \in 1..Len(p)}

\* q exists in the filesystem f but is not a directory there.
NotDirIn(f, q) ==
    FsAccess(World, f, q) = Ok(TRUE) /\ FsIsdir(World, f, q) # Ok(TRUE)

\* After the call that returned r, q is a directory of the filesystem f with
\* the permission bits, uid and gid the union reported for q before the call.
CopiedFromView(r, f, q) ==
    LET u == FsCall(World, "U", Call("stat", q)).res
        b == FsCall(r.w, f, Call("stat", q)).res
    IN /\ IsOk(u) /\ IsOk(b)
       /\ S_ISDIR(b.val.st_mode)
       /\ S_IMODE(b.val.st_mode) = S_IMODE(u.val.st_mode)
       /\ b.val.st_uid = u.val.st_uid
       /\ b.val.st_gid = u.val.st_gid

\* C31: for a write on p through the union, with writable branch B: an
\* ancestor of p that exists in B without being a directory makes the call
\* fail with ENOTDIR and change nothing; when the call succeeds, every
\* ancestor of p that was missing from B is a directory of B afterwards, with
\* the mode, uid and gid the union view reported for it.
C31_CopyUpOrder ==
    \A c \in UWriteCalls :
        write_branches # << >> =>
            LET B == write_branches[1].fs
                r == FsCall(World, "U", c)
            IN /\ (\E q \in Ancestors(c.path) : NotDirIn(B, q)) =>
                      /\ ~IsOk(r.res)
                      /\ Errno(r.res.err) = "ENOTDIR"
                      /\ r.w = World
               /\ IsOk(r.res) =>
                      \A q \in Ancestors(c.path) :
                          FsAccess(World, B, q) = Ok(FALSE) => CopiedFromView(r, B, q)

\* The writes of C32 that keep the object at p: chmod, chown and the
\* write-mode open (nothing is written to the stream).
KeepingCalls ==
    ChmodCalls(UWritePaths) \cup ChownCalls(UWritePaths) \cup OpenWCalls(UWritePaths)

\* The object at p in the MemoryFS below the filesystem f has the same
\* type, bytes and children in the worlds w1 and w2.
SameObject(w1, w2, f, p) ==
    /\ Has(w1.mem[Underlying(f)], p) /\ Has(w2.mem[Underlying(f)], p)
    /\ w1.mem[Underlying(f)][p].kind = w2.mem[Underlying(f)][p].kind
    /\ w1.mem[Underlying(f)][p].data = w2.mem[Underlying(f)][p].data
    /\ w1.mem[Underlying(f)][p].contents = w2.mem[Underlying(f)][p].contents

\* C32: when the path p of a union write is served by the writable branch B
\* itself, the write does not re-create or replace p in B: after a
\* successful chmod, chown or write-mode open of p through the union, B
\* holds at p the same file content or the same children as before, and
\* repeating the call succeeds and leaves them the same again.
C32_NoCopyUpFromSelf ==
    \A c \in KeepingCalls :
        (/\ write_branches # << >>
         /\ IsOk(_get_read_branch(World, c.path))
         /\ _get_read_branch(World, c.path).val.branch = write_branches[1]) =>
            LET B == write_branches[1].fs
                r == FsCall(World, "U", c)
                again == FsCall(r.w, "U", c)
            IN IsOk(r.res) =>
                  /\ SameObject(World, r.w, B, c.path)
                  /\ IsOk(again.res)
                  /\ SameObject(r.w, again.w, B, c.path)

\* C33: when a union write fails before the requested operation is
\* forwarded to the writable branch B (in the checks or in the copy-up of
\* _get_write_branch), the state of B, its whiteout cache included, is the
\* same as before the call.
C33_FailedCopyUpLeavesNoGarbage ==
    \A c \in UWriteCalls :
        (/\ write_branches # << >>
         /\ c.op = "rmdir" => rmdir_check(World, c) = "") =>
            LET B == write_branches[1].fs
                wb == _get_write_branch(World, c.path, expected_of(c),
                                        for_overwrite_of(c))
            IN ~IsOk(wb.res) =>
                  /\ FsCall(World, "U", c) = wb
                  /\ BranchState(wb.w, B) = BranchState(World, B)

\* The add_branch calls with rank=None that C34 is about: a fresh reference
\* and a writability the filesystem allows.
DefaultRankInputs ==
    {b \in {[fs |-> "mB", ref |-> "B", rank |-> NoRank, writable |-> FALSE],
            [fs |-> "wA", ref |-> "A", rank |-> NoRank, writable |-> TRUE]} :
        b.ref \notin DOMAIN branches}

\* C34: add_branch with rank=None, a fresh reference and a valid
\* writability succeeds in every state of the union, a union without
\* branches included, and the branch it adds has a rank greater than the
\* rank of every branch that was there.
C34_DefaultRank ==
    /\ [](\A b \in DefaultRankInputs :
            add_branch_error(b.fs, b.ref, b.rank, b.writable) = "")
    /\ [][\A b \in DefaultRankInputs :
            add_branch(b.fs, b.ref, b.rank, b.writable) =>
                /\ b.ref \in DOMAIN branches'
                /\ \A k \in DOMAIN branches : branches'[b.ref].rank > branches[k].rank]_vars

-----------------------------------------------------------------------------
(* MountFS: operations on a mount point (SpecM).                           *)

\* C35: for a sub-filesystem S mounted at m, stat, listdir and
\* access(F_OK) of m through M behave as stat, listdir and access(F_OK) of
\* the root of S.
C35_MountPointIsSubfsRoot ==
    \A m \in DOMAIN filesystems :
        \A c \in {Call("stat", m), Call("listdir", m),
                  [Call("access", m) EXCEPT !.mode = F_OK]} :
            FsCall(World, "M", c).res
                = FsCall(World, filesystems[m], [c EXCEPT !.path = ROOT]).res

-----------------------------------------------------------------------------
(* UnionFS.listdir: the branches enumerated (SpecU).                       *)

\* d is a directory in the branch b that the caller may read and search.
ReadableDirIn(b, d) ==
    /\ IsOk(FsCall(World, b.fs, Call("stat", d)).res)
    /\ S_ISDIR(FsCall(World, b.fs, Call("stat", d)).res.val.st_mode)
    /\ FsCall(World, b.fs,
              [Call("access", d) EXCEPT !.mode = BitOr(R_OK, X_OK)]).res = Ok(TRUE)

\* The branch sorted_branches[i] does not know d: its stat raises ENOENT
\* and d is not deleted there.
UnknownIn(i, d) ==
    _get_branch_pstat(World, sorted_branches[i], d).status = _STATUS_UNKNOWN

\* C36: listdir(d) through the union enumerates a branch only if d is a
\* readable and searchable directory there and every branch of smaller rank
\* either does not know d or is enumerated too; when no branch is
\* enumerated listdir fails with ENOENT.
C36_ListdirBranches ==
    \A d \in UPaths :
        LET brs == _get_dir_branches(World, d)
        IN IsOk(brs) =>
              /\ \A i \in DOMAIN sorted_branches :
                    (\E k \in DOMAIN brs.val : brs.val[k] = sorted_branches[i]) =>
                        /\ ReadableDirIn(sorted_branches[i], d)
                        /\ \A j \in 1..(i - 1) :
                              UnknownIn(j, d) \/ ReadableDirIn(sorted_branches[j], d)
              /\ (~\E i \in DOMAIN sorted_branches :
                      /\ ReadableDirIn(sorted_branches[i], d)
                      /\ \A j \in 1..(i - 1) :
                            UnknownIn(j, d) \/ ReadableDirIn(sorted_branches[j], d)) =>
                     FsCall(World, "U", Call("listdir", d)).res = Err("ENOENT")

-----------------------------------------------------------------------------
(* UnionFS: reading back what was written (SpecU).                         *)

\* The part of C37 about content: a successful write-mode open of p
\* through the union that writes b is followed by a read of exactly b.
ReadsBackContent ==
    \A p \in UWritePaths, b \in WBytes :
        LET r == WriteFile(World, "U", p, b)
        IN IsOk(r.res) => ReadFile(r.w, "U", p).res = Ok(b)

\* The part of C37 about modes: a successful chmod(p, m) through the
\* union is followed by a stat(p) whose permission bits are m.
ReadsBackMode ==
    \A c \in ChmodCalls(UWritePaths) :
        LET r == FsCall(World, "U", c)
            s == FsCall(r.w, "U", Call("stat", c.path)).res
        IN IsOk(r.res) => IsOk(s) /\ S_IMODE(s.val.st_mode) = c.mode

\* C37: whatever the ranks and writabilities of the branches, a write
\* through the union is visible to the reads that follow it through the
\* union: the content written to p is read back, the mode given to p is
\* reported by stat.
C37_ReadYourWrites == ReadsBackContent /\ ReadsBackMode

-----------------------------------------------------------------------------
(* WhiteoutFS: a path deleted and created again (SpecW).                   *)

\* The calls through which wA deletes the path p.
DeleteCalls(p) == {Call("unlink", p), Call("rmdir", p)}

\* The part of C38 about files: p deleted through wA, then created again by
\* a write-mode open that writes b, holds b and nothing else.
RecreatedFileIsFresh ==
    \A p \in WPaths \ {ROOT}, b \in WBytes : \A c \in DeleteCalls(p) :
        LET r1 == FsCall(World, "wA", c)
            r2 == WriteFile(r1.w, "wA", p, b)
        IN (IsOk(r1.res) /\ IsOk(r2.res)) =>
              /\ p \in DOMAIN r2.w.mem["mA"]
              /\ r2.w.mem["mA"][p].data = b

\* The part of C38 about directories: d deleted through wA, then created
\* again by wA.mkdir(d), shows none of its former children.
RecreatedDirIsEmpty ==
    \A d \in WPaths \ {ROOT} : \A c \in DeleteCalls(d) :
        LET r1 == FsCall(World, "wA", c)
            r2 == FsCall(r1.w, "wA", Call("mkdir", d))
        IN (IsOk(r1.res) /\ IsOk(r2.res)) =>
              /\ FsCall(r2.w, "wA", Call("listdir", d)).res = Ok({})
              /\ \A q \in WPaths :
                    (Len(q) > Len(d) /\ SubSeq(q, 1, Len(d)) = d) =>
                        /\ FsAccess(r2.w, "wA", q) = Ok(FALSE)
                        /\ ~IsOk(FsCall(r2.w, "wA", Call("stat", q)).res)

\* C38: a path deleted through a WhiteoutFS over a MemoryFS and created
\* again does not expose what it held before the deletion: a file created
\* again by a write-mode open holds only the new content, a directory
\* created again by mkdir has no child visible through access, stat or
\* listdir.
C38_RecreatedPathIsFresh == RecreatedFileIsFresh /\ RecreatedDirIsEmpty

-----------------------------------------------------------------------------
(* Default modes of the objects a MemoryFS creates (SpecW).                *)

\* The permission bits `bits` with the bits of the umask u cleared.
Masked(bits, u) == bits - BitAnd(bits, u)

\* The permission bits that stat reports for p on mA in the world w.
PermBits(w, p) == S_IMODE(FsCall(w, "mA", Call("stat", p)).res.val.st_mode)

\* C39: with the default umask u, a directory created by mkdir has the
\* permission bits 0777 with the bits of u cleared, a file created by a
\* write-mode open has 0666 with the bits of u cleared, and a symlink has
\* 0777 (for u = 022: 0755, 0644 and 0777).
C39_DefaultModes ==
    \A p \in WPaths \ {ROOT} :
        ~IsOk(FsCall(World, "mA", Call("stat", p)).res) =>
            LET d == FsCall(World, "mA", Call("mkdir", p))
                f == FsCall(World, "mA", OpenCall(p, MODE_WB))
                l == FsCall(World, "mA", [Call("symlink", p) EXCEPT !.target = ROOT])
            IN /\ IsOk(d.res) =>
                     PermBits(d.w, p)
                         = Masked(BitOr(S_IRWXU, BitOr(S_IRWXG, S_IRWXO)), default_umask)
               /\ IsOk(f.res) =>
                     PermBits(f.w, p)
                         = Masked(BitOr(S_IRALL, S_IWALL), default_umask)
               /\ IsOk(l.res) =>
                     PermBits(l.w, p) = BitOr(S_IRWXU, BitOr(S_IRWXG, S_IRWXO))

====
